---- MODULE Spec2Model ----
(***************************************************************************)
(* lxp-bridge: the coordinator's command dispatch (MQTT command -> command *)
(* primitive -> request frame -> matching reply), its inbound packet       *)
(* processing (register cache, MQTT publishes) and the lifecycle around    *)
(* them.                                                                   *)
(***************************************************************************)
EXTENDS Integers, Sequences, FiniteSets, TLC

(* ----------------------------- bounds ---------------------------------- *)

\* MQTT command messages that arrive on from_mqtt in one run.
MaxMessages == 2
\* Packets the inverter side broadcasts on from_inverter in one run.
MaxInbound == 1
\* Times an inverter session drops its connection in one run.
MaxDrops == 1
\* Capacity of a broadcast channel: the packets one receiver can fall behind.
ChannelCapacity == 32

(* ------------------------- program constants --------------------------- *)

U16 == 65536

\* Register 21 (function enable flags) and its bits.
Register21 == 21
AcChargeEnableBit == 7
ForcedDischargeEnableBit == 10
ChargePriorityEnableBit == 11

\* Registers written by the rate and SOC-limit commands.
ChargePowerPercentCmd == 64
DischgPowerPercentCmd == 65
AcChargePowerCmd == 66
AcChargeSocLimit == 67
DischgCutOffSocEod == 105

\* Registers in one block of input registers (read_inputs/{n}).
InputBlockSize == 40

\* First register of AC charge time slot 1 (start word; the end word follows).
AcChargeTimeRegister == 68

(* ------------------------------ data ----------------------------------- *)

Datalogs == {"D1", "D2"}
Serials == {"S1", "S2"}

\* Register values the environment and the operators use.
Values == {0, 128}

NoPacket == [kind |-> "None"]
\* What a receiver finds in place of the packets it fell behind by:
\* recv() returns Err(Lagged).
Lagged == [kind |-> "Lagged"]
NoCommand == [verb |-> "None"]
NoMessage == [verb |-> "None"]
Shutdown == [kind |-> "Shutdown"]

\* u16::to_le_bytes
ToLeBytes(v) == <<v % 256, v \div 256>>

\* The u16 held by the first two bytes of a payload (little-endian).
FromLeBytes(bytes) ==
    IF Len(bytes) >= 2 THEN bytes[1] + 256 * bytes[2]
    ELSE IF Len(bytes) = 1 THEN bytes[1] ELSE 0

\* `x as u8`
AsU8(x) == x % 256

TranslatedData(datalog, device_function, inverter, register, values) ==
    [kind |-> "TranslatedData", datalog |-> datalog,
     device_function |-> device_function, inverter |-> inverter,
     register |-> register, values |-> values]

ParamPacket(kind, datalog, register, values) ==
    [kind |-> kind, datalog |-> datalog, device_function |-> "None",
     inverter |-> "None", register |-> register, values |-> values]

Heartbeat(datalog) ==
    [kind |-> "Heartbeat", datalog |-> datalog, device_function |-> "None",
     inverter |-> "None", register |-> 0, values |-> <<>>]

\* Packet::value(): the single u16 a WriteSingle / WriteParam reply carries.
PacketValue(p) == FromLeBytes(p.values)

\* TranslatedData::pairs(): (register, value) for each word of the payload.
Pairs(p) ==
    [i \in 1..(Len(p.values) \div 2) |->
        <<p.register + (i - 1), p.values[2 * i - 1] + 256 * p.values[2 * i]>>]

\* The request fingerprint used by reply matching.
Fingerprint(p) == <<p.kind, p.datalog, p.device_function, p.register>>

IsWriteFrame(p) ==
    \/ p.kind = "WriteParam"
    \/ p.kind = "TranslatedData" /\ p.device_function \in {"WriteSingle", "WriteMulti"}

\* v | (1 << bit) and v & !(1 << bit) on u16.
Pow2(n) == 2 ^ n
BitIsSet(v, bit) == (v \div Pow2(bit)) % 2 = 1
SetBit(v, bit) == IF BitIsSet(v, bit) THEN v ELSE (v + Pow2(bit)) % U16
ClearBit(v, bit) == IF BitIsSet(v, bit) THEN v - Pow2(bit) ELSE v

(* --------------------------- configuration ----------------------------- *)

\* config::Inverter, the fields the coordinator and the primitives read.
Inverter(enabled, serial, datalog, read_only) ==
    [enabled |-> enabled, serial |-> serial, datalog |-> datalog,
     read_only |-> read_only]

Config(read_only1, enabled2, read_only2, mqtt_enabled) ==
    [inverters |-> <<Inverter(TRUE, "S1", "D1", read_only1),
                     Inverter(enabled2, "S2", "D2", read_only2)>>,
     mqtt_enabled |-> mqtt_enabled]

\* The configurations a run starts from: two inverters, the second of which
\* may be disabled; either may be read-only; MQTT may be disabled.
Configs ==
    {Config(FALSE, TRUE, FALSE, TRUE), Config(TRUE, TRUE, FALSE, TRUE),
     Config(FALSE, TRUE, TRUE, TRUE), Config(FALSE, FALSE, FALSE, TRUE),
     Config(TRUE, FALSE, FALSE, TRUE), Config(FALSE, TRUE, FALSE, FALSE)}

\* What the environment does in one run: one command of any kind; or
\* several commands of the kinds that are repeated; or one simple command
\* with stray frames, with dropped connections, or with a shutdown.
Budget(messages, inbound, drops, stop, bodies) ==
    [messages |-> messages, inbound |-> inbound, drops |-> drops, stop |-> stop,
     bodies |-> bodies]

Budgets ==
    {Budget(1, 0, 0, FALSE, "any"),
     Budget(MaxMessages, 0, 0, FALSE, "repeated"),
     Budget(1, MaxInbound, 0, FALSE, "simple"),
     Budget(1, 0, MaxDrops, FALSE, "simple"),
     Budget(1, 0, 0, TRUE, "simple")}

(* --------------------------- configuration file ------------------------ *)

\* The sections of a configuration file are varied one or two at a time.
MaxDeviations == 2

\* serde default of inverter.read_timeout in validate
DefaultReadTimeout == 900

\* Option<T>
None == [some |-> FALSE]
Some(v) == [some |-> TRUE, value |-> v]

\* A URL as written in the file: its scheme (empty when there is none) and
\* the rest.
Url(scheme, rest) == [scheme |-> scheme, rest |-> rest]

\* url::Url::parse fails on a string with no scheme (RelativeUrlWithoutBase),
\* which includes the empty string.
UrlParses(u) == u.scheme # ""

\* config::Mqtt, config::Influx, config::Database, config::Inverter and
\* config::Scheduler as written in the file; ports are the numbers written,
\* before they are read as u16.
MqttSection(enabled, host, port) ==
    [enabled |-> enabled, host |-> host, port |-> port]
InfluxSection(enabled, url, database) ==
    [enabled |-> enabled, url |-> url, database |-> database]
DatabaseSection(enabled, url) == [enabled |-> enabled, url |-> url]
InverterSection(enabled, host, port, read_timeout) ==
    [enabled |-> enabled, host |-> host, port |-> port,
     read_timeout |-> read_timeout]
SchedulerSection(enabled, timesync_cron) ==
    [enabled |-> enabled, timesync_cron |-> timesync_cron]

ConfigFile(mqtt, influx, databases, inverters, scheduler) ==
    [mqtt |-> mqtt, influx |-> influx, databases |-> databases,
     inverters |-> inverters, scheduler |-> scheduler]

\* A file every rule accepts.
BaseFile ==
    ConfigFile(MqttSection(TRUE, "localhost", 1883),
               InfluxSection(TRUE, Url("http", "localhost:8086"), "lxp"),
               <<DatabaseSection(TRUE, Url("http", "localhost:8086"))>>,
               <<InverterSection(TRUE, "localhost", 8000, None)>>,
               Some(SchedulerSection(TRUE, Some("0 0 * * *"))))

\* The values a section takes: hosts empty or not, ports 0, in range and
\* beyond u16, URLs with and without a scheme, read_timeout and
\* timesync_cron absent, empty (zero) and set.
MqttSections ==
    {MqttSection(e, h, p) :
        e \in BOOLEAN, h \in {"", "localhost"}, p \in {0, 1883, U16}}
InfluxSections ==
    {InfluxSection(e, u, d) :
        e \in BOOLEAN,
        u \in {Url("http", "localhost:8086"), Url("", "localhost/lxp")},
        d \in {"", "lxp"}}
DatabaseLists ==
    {<<>>} \cup
    {<<DatabaseSection(e, u)>> :
        e \in BOOLEAN,
        u \in {Url("http", "localhost:8086"), Url("", "localhost/lxp")}}
InverterSections ==
    {InverterSection(e, h, p, t) :
        e \in BOOLEAN, h \in {"", "localhost"}, p \in {0, 8000, U16},
        t \in {None, Some(0), Some(DefaultReadTimeout)}}
InverterLists ==
    {<<i>> : i \in InverterSections}
    \cup {<<BaseFile.inverters[1], i>> : i \in InverterSections}
SchedulerSections ==
    {None} \cup
    {Some(SchedulerSection(e, c)) :
        e \in BOOLEAN, c \in {None, Some(""), Some("0 0 * * *")}}

\* The files that differ from BaseFile in the named sections at most.
FilesVarying(names) ==
    {ConfigFile(m, i, d, v, s) :
        m \in IF "mqtt" \in names THEN MqttSections ELSE {BaseFile.mqtt},
        i \in IF "influx" \in names THEN InfluxSections ELSE {BaseFile.influx},
        d \in IF "databases" \in names THEN DatabaseLists
                                       ELSE {BaseFile.databases},
        v \in IF "inverters" \in names THEN InverterLists
                                       ELSE {BaseFile.inverters},
        s \in IF "scheduler" \in names THEN SchedulerSections
                                       ELSE {BaseFile.scheduler}}

\* The configuration files a run may be started with: BaseFile with up to
\* MaxDeviations of its sections varied.
Files ==
    UNION {FilesVarying(names) :
            names \in {n \in SUBSET {"mqtt", "influx", "databases",
                                     "inverters", "scheduler"} :
                            Cardinality(n) <= MaxDeviations}}

\* serde_yaml::from_str into Config: a port that is no u16 is an error.
Deserializes(f) ==
    /\ f.mqtt.port \in 0..(U16 - 1)
    /\ \A k \in 1..Len(f.inverters) : f.inverters[k].port \in 0..(U16 - 1)

unwrap_or(option, default) == IF option.some THEN option.value ELSE default

\* The first inverter validate rejects, or 0.
RECURSIVE FirstBadInverter(_, _)
FirstBadInverter(inverters, k) ==
    IF k > Len(inverters) THEN 0
    ELSE IF /\ inverters[k].enabled
            /\ \/ inverters[k].port = 0
               \/ inverters[k].host = ""
               \/ unwrap_or(inverters[k].read_timeout, DefaultReadTimeout) = 0
         THEN k
         ELSE FirstBadInverter(inverters, k + 1)

\* A validate that does not look at the database URLs.
ValidateSkipsDatabases(c) ==
    IF c.mqtt.enabled /\ c.mqtt.port = 0 THEN "mqtt.port"
    ELSE IF c.mqtt.enabled /\ c.mqtt.host = "" THEN "mqtt.host"
    ELSE IF c.influx.enabled /\ ~UrlParses(c.influx.url) THEN "influx.url"
    ELSE IF c.influx.enabled /\ c.influx.database = "" THEN "influx.database"
    ELSE IF FirstBadInverter(c.inverters, 1) # 0 THEN "inverter"
    ELSE IF /\ c.scheduler.some
            /\ c.scheduler.value.enabled
            /\ c.scheduler.value.timesync_cron = Some("")
         THEN "scheduler.timesync_cron"
    ELSE "Ok"

\* Config::validate: the first rule the configuration breaks, or Ok.
validate(c) ==
    IF c.mqtt.enabled /\ c.mqtt.port = 0 THEN "mqtt.port"
    ELSE IF c.mqtt.enabled /\ c.mqtt.host = "" THEN "mqtt.host"
    ELSE IF c.influx.enabled /\ ~UrlParses(c.influx.url) THEN "influx.url"
    ELSE IF c.influx.enabled /\ c.influx.database = "" THEN "influx.database"
    ELSE IF \E k \in 1..Len(c.databases) :
                c.databases[k].enabled /\ ~UrlParses(c.databases[k].url)
         THEN "database.url"
    ELSE IF FirstBadInverter(c.inverters, 1) # 0 THEN "inverter"
    ELSE IF /\ c.scheduler.some
            /\ c.scheduler.value.enabled
            /\ c.scheduler.value.timesync_cron = Some("")
         THEN "scheduler.timesync_cron"
    ELSE "Ok"

\* Config::new: deserialize, validate, and return the configuration or the
\* error.
ConfigNew(f) ==
    IF ~Deserializes(f) THEN [ok |-> FALSE, error |-> "deserialize"]
    ELSE IF validate(f) # "Ok" THEN [ok |-> FALSE, error |-> validate(f)]
    ELSE [ok |-> TRUE, config |-> f]

NotLoaded == [ok |-> FALSE, error |-> "not loaded"]

(* ------------------------------ time slots ----------------------------- *)

\* A parse of a time register that takes the low byte for the minute.
UnpackTimeSwapped(value) == <<(value \div 256) % 256, value % 256>>

\* parse_hold_register, registers 68 and 69: hour = value & 0xFF,
\* minute = (value >> 8) & 0xFF.
UnpackTime(value) == <<value % 256, (value \div 256) % 256>>

\* The time slots given to set_time_register: every start time with the
\* end time at a corner of its range, and every end time likewise.
TimeSlots ==
    LET corners == {<<0, 0>>, <<23, 59>>, <<23, 0>>, <<0, 59>>}
    IN  {<<sh, sm, e[1], e[2]>> : sh \in 0..23, sm \in 0..59, e \in corners}
        \cup {<<b[1], b[2], eh, em>> : b \in corners, eh \in 0..23, em \in 0..59}

NoTime == [values |-> <<>>, words |-> <<>>, parsed |-> <<>>]

(* ------------------------------ frame codec ---------------------------- *)

\* The packets given to the codec: every variant, both serials, registers
\* at both ends of u16 and across a byte boundary, payloads of 0, 1 and 2
\* words.
Packets ==
    LET registers == {0, 21, 256, 65535}
        payloads == {<<>>, <<40, 0>>, <<128, 255>>, <<1, 2, 3, 4>>}
    IN  {Heartbeat(d) : d \in Datalogs}
        \cup {TranslatedData(d, f, i, r, v) :
                d \in Datalogs,
                f \in {"ReadInput", "ReadHold", "WriteSingle", "WriteMulti"},
                i \in Serials, r \in registers, v \in payloads}
        \cup {ParamPacket(k, d, r, v) :
                k \in {"ReadParam", "WriteParam"}, d \in Datalogs,
                r \in registers, v \in payloads}

\* A serial on the wire: 10 ASCII bytes.
SerialBytes(serial) ==
    CASE serial = "D1" -> <<66, 65, 49, 50, 51, 52, 53, 54, 55, 56>>
      [] serial = "D2" -> <<66, 65, 56, 55, 54, 53, 52, 51, 50, 49>>
      [] serial = "S1" -> <<52, 50, 49, 50, 48, 49, 54, 48, 48, 49>>
      [] serial = "S2" -> <<52, 50, 49, 50, 48, 49, 54, 48, 48, 50>>

\* A device function code that takes WriteMulti for WriteSingle.
DeviceFunctionCodeSingle(device_function) ==
    CASE device_function = "ReadHold" -> 3
      [] device_function = "ReadInput" -> 4
      [] device_function = "WriteSingle" -> 6
      [] device_function = "WriteMulti" -> 6

\* The device function codes of the wire protocol.
DeviceFunctionCode(device_function) ==
    CASE device_function = "ReadHold" -> 3
      [] device_function = "ReadInput" -> 4
      [] device_function = "WriteSingle" -> 6
      [] device_function = "WriteMulti" -> 16

\* The tag byte of each packet variant.
TcpFunction(kind) ==
    CASE kind = "Heartbeat" -> 193
      [] kind = "TranslatedData" -> 194
      [] kind = "ReadParam" -> 195
      [] kind = "WriteParam" -> 196

\* CRC-16 (Modbus: initial value 0xFFFF, reflected polynomial 0xA001) of a
\* byte sequence.
Crc16(bytes) ==
    LET Bit(v, k) == (v \div 2 ^ k) % 2
        \* crc ^ byte: only the low byte changes
        XorByte(crc, byte) ==
            LET x(k) == ((Bit(crc, k) + Bit(byte, k)) % 2) * 2 ^ k
            IN  (crc \div 256) * 256
                + x(0) + x(1) + x(2) + x(3) + x(4) + x(5) + x(6) + x(7)
        \* (crc >> 1) ^ 0xA001 when the low bit is set, else crc >> 1
        Shift(crc) ==
            LET v == crc \div 2
            IN  IF crc % 2 = 0 THEN v
                ELSE v + 32768
                     + (IF Bit(v, 13) = 1 THEN -8192 ELSE 8192)
                     + (IF Bit(v, 0) = 1 THEN -1 ELSE 1)
        fold[i \in 0..Len(bytes)] ==
            IF i = 0 THEN 65535
            ELSE LET crc == fold[i - 1]
                 IN  IF crc \in 0..65535
                     THEN Shift(Shift(Shift(Shift(Shift(Shift(Shift(Shift(
                              XorByte(crc, bytes[i])))))))))
                     ELSE 0
    IN  fold[Len(bytes)]

\* encode: preamble, length of the rest (u16), variant tag, datalog serial,
\* then for a translated frame the device function code, the inverter
\* serial, the register (u16), the payload and the CRC-16 of those; for a
\* parameter frame the register and the payload. Little-endian throughout.
encode(packet) ==
    LET data ==
            <<DeviceFunctionCode(packet.device_function)>>
            \o SerialBytes(packet.inverter)
            \o ToLeBytes(packet.register) \o packet.values
        body ==
            CASE packet.kind = "Heartbeat" -> <<>>
              [] packet.kind = "TranslatedData" -> data \o ToLeBytes(Crc16(data))
              [] OTHER -> ToLeBytes(packet.register) \o packet.values
        rest == <<TcpFunction(packet.kind)>> \o SerialBytes(packet.datalog) \o body
    IN  <<161, 26>> \o ToLeBytes(Len(rest)) \o rest

\* decode: the framed streaming decoder. Incomplete while the buffer is
\* shorter than the frame its length field announces; Invalid on a wrong
\* preamble, an unknown tag, serial or function code, a frame too short
\* for its variant, or a wrong CRC.
decode(buffer) ==
    LET Incomplete == [result |-> "Incomplete"]
        Invalid == [result |-> "Invalid"]
        Decoded(packet, consumed) ==
            [result |-> "Packet", packet |-> packet, consumed |-> consumed]
        U16At(i) == buffer[i] + 256 * buffer[i + 1]
        Bytes(from, to) == SubSeq(buffer, from, to)
        SerialsAt(i, names) == {n \in names : SerialBytes(n) = Bytes(i, i + 9)}
        end == 4 + U16At(3)
        kinds == {k \in {"Heartbeat", "TranslatedData", "ReadParam", "WriteParam"} :
                    TcpFunction(k) = buffer[5]}
        kind == CHOOSE k \in kinds : TRUE
        datalogs == SerialsAt(6, Datalogs)
        datalog == CHOOSE d \in datalogs : TRUE
        functions == {f \in {"ReadInput", "ReadHold", "WriteSingle", "WriteMulti"} :
                        DeviceFunctionCode(f) = buffer[16]}
        inverters == SerialsAt(17, Serials)
    IN  IF Len(buffer) < 4 THEN Incomplete
        ELSE IF Bytes(1, 2) # <<161, 26>> THEN Invalid
        ELSE IF Len(buffer) < end THEN Incomplete
        ELSE IF end < 15 \/ kinds = {} \/ datalogs = {} THEN Invalid
        ELSE IF kind = "Heartbeat"
            THEN IF end = 15 THEN Decoded(Heartbeat(datalog), end) ELSE Invalid
        ELSE IF kind = "TranslatedData"
            THEN IF \/ end < 30 \/ (end - 30) % 2 # 0
                    \/ functions = {} \/ inverters = {}
                    \/ U16At(end - 1) # Crc16(Bytes(16, end - 2))
                 THEN Invalid
                 ELSE Decoded(TranslatedData(datalog,
                                             CHOOSE f \in functions : TRUE,
                                             CHOOSE i \in inverters : TRUE,
                                             U16At(27), Bytes(29, end - 2)),
                              end)
        ELSE IF end < 17 THEN Invalid
        ELSE Decoded(ParamPacket(kind, datalog, U16At(16), Bytes(18, end)), end)

NoCodec == [packet |-> NoPacket, bytes |-> <<>>, decoded |-> [result |-> "None"]]

\* app() has not been entered.
NoApp == [phase |-> "off"]

VARIABLES
    file,              \* the configuration file, deserialized field by field
    loaded,            \* what Config::new returned for it
    time_register,     \* a time slot: the four bytes given, the two words, the parse
    codec,             \* a packet given to the codec, its frame, the frame decoded
    app,               \* app(): what it started and stopped, and its spawned tasks
    handshake,         \* inverter_connected: its position, its waiter, its requests
    register_cache,    \* the register cache task: "running", or "ended" (receiver dropped)
    config,            \* ConfigWrapper
    lifecycle,         \* "running" | "signalled" | "stopped"  (Components::stop)
    from_mqtt,         \* the mqtt_receiver's subscription to from_mqtt
    pc,                \* mqtt_receiver: "off" | "recv" | "loop" | "wait" | "done" | "panicked"
    msg,               \* the message process_message is working on
    targets,           \* inverters still to dispatch for msg
    cmd,               \* the command process_command is running
    waiter,            \* the running primitive's request and reply subscription
    from_inverter,     \* the inverter_receiver's subscription to from_inverter
    ir,                \* inverter_receiver: "running" | "done"
    to_register_cache, \* the register cache task's subscription
    cache,             \* the register cache
    session,           \* per datalog: "Connected" | "Disconnected" | "Absent"
    to_inverter,       \* per datalog: frames the session writer has yet to write
    writer,            \* per datalog: the session writer, "ready" | "pacing"
    wire,              \* per datalog: the last frame written to the socket
    regs,              \* per datalog: the inverter's own holding registers
    to_mqtt_subscribed,\* whether the MQTT gateway holds a subscription to to_mqtt
    stats,             \* PacketStats
    arrived,           \* messages that have arrived on from_mqtt
    counts,            \* what the environment may still do in this run
    sent,              \* every frame ever put on to_inverter
    last,              \* the last finished command dispatch and its effects
    lastIn             \* the last inbound packet processed and its effects

\* What is computed outside the running coordinator.
offline == <<file, loaded, time_register, codec, app>>

\* The running coordinator, its channels and the inverter sessions.
coordinator == <<handshake, register_cache, config, lifecycle, from_mqtt, pc, msg, targets, cmd, waiter,
                 from_inverter, ir, to_register_cache, cache, session,
                 to_inverter, writer, wire, regs, to_mqtt_subscribed, stats,
                 arrived, counts, sent, last, lastIn>>

vars == <<file, loaded, time_register, codec, app,
          handshake, register_cache, config, lifecycle, from_mqtt, pc, msg, targets, cmd, waiter,
          from_inverter, ir, to_register_cache, cache, session, to_inverter,
          writer, wire, regs, to_mqtt_subscribed, stats, arrived, counts, sent, last, lastIn>>

\* An enabled_inverters that does not filter.
AllInverters == config.inverters

\* ConfigWrapper::enabled_inverters
enabled_inverters ==
    SelectSeq(config.inverters, LAMBDA i : i.enabled)

\* ConfigWrapper::enabled_inverter_with_datalog: the first enabled inverter
\* with that datalog, or none.
HasEnabledInverter(datalog) ==
    \E k \in 1..Len(enabled_inverters) : enabled_inverters[k].datalog = datalog

enabled_inverter_with_datalog(datalog) ==
    LET ks == {k \in 1..Len(enabled_inverters) : enabled_inverters[k].datalog = datalog}
        first == CHOOSE k \in ks : \A j \in ks : k <= j
    IN  enabled_inverters[first]

NoWaiter == [subscribed |-> FALSE, request |-> NoPacket, reply |-> NoPacket,
             lost |-> FALSE]

NoHandshake ==
    [state |-> "off", datalog |-> "None", publish_holdings_on_connect |-> FALSE,
     step |-> 0, waiter |-> NoWaiter, requests |-> <<>>, replies |-> <<>>]

NoLast == [verb |-> "None"]
NoFrame == [id |-> 0, packet |-> NoPacket, paced |-> TRUE, answered |-> TRUE]
NoLastIn == [packet |-> NoPacket]

\* PacketStats::default
StatsDefault ==
    [packets_received |-> 0, packets_sent |-> 0,
     heartbeat_packets_received |-> 0, translated_data_packets_received |-> 0,
     read_param_packets_received |-> 0, write_param_packets_received |-> 0,
     heartbeat_packets_sent |-> 0, translated_data_packets_sent |-> 0,
     read_param_packets_sent |-> 0, write_param_packets_sent |-> 0,
     serial_mismatches |-> 0,
     mqtt_messages_sent |-> 0, mqtt_errors |-> 0,
     register_cache_errors |-> 0,
     inverter_disconnections |-> [d \in {} |-> 0]]

\* An increment_packets_sent that counts the total only.
IncrementTotalOnly(st) == [st EXCEPT !.packets_sent = @ + 1]

\* increment_packets_sent for the synthetic TranslatedData packet that
\* process_command and inverter_connected pass to it.
increment_packets_sent(st) ==
    [st EXCEPT !.packets_sent = @ + 1, !.translated_data_packets_sent = @ + 1]

\* An inverter_receiver that counts every frame as a TranslatedData frame.
ReceivedCounterTranslated(packet) == "translated_data_packets_received"

\* inverter_receiver: the counter of the kind of a received frame.
ReceivedCounter(packet) ==
    CASE packet.kind = "Heartbeat" -> "heartbeat_packets_received"
      [] packet.kind = "TranslatedData" -> "translated_data_packets_received"
      [] packet.kind = "ReadParam" -> "read_param_packets_received"
      [] packet.kind = "WriteParam" -> "write_param_packets_received"

\* A process_inverter_packet that gives up on the register cache at the
\* first send that fails.
CacheErrorsOnce(updates) ==
    IF register_cache = "running" \/ updates = <<>> THEN 0 ELSE 1

\* process_inverter_packet: the calls of increment_cache_errors for the
\* updates of one packet: one for every send to a cache channel whose
\* receiver is gone.
CacheErrors(updates) ==
    IF register_cache = "running" THEN 0 ELSE Len(updates)

\* The state after construction, for a configuration, an environment budget
\* and a pending inverter_connected drawn from the given sets.
Started(configs, budgets, handshakes) ==
    /\ file = BaseFile
    /\ loaded = ConfigNew(BaseFile)
    /\ time_register = NoTime
    /\ codec = NoCodec
    /\ app = NoApp
    /\ config \in configs
    /\ handshake \in handshakes
    /\ register_cache = "running"
    /\ lifecycle = "running"
    /\ from_mqtt = <<>>
    /\ pc = IF config.mqtt_enabled THEN "recv" ELSE "off"
    /\ msg = NoMessage
    /\ targets = <<>>
    /\ cmd = NoCommand
    /\ waiter = NoWaiter
    /\ from_inverter = <<>>
    /\ ir = "running"
    /\ to_register_cache = <<>>
    /\ cache = [r \in {} |-> 0]
    /\ session = [d \in Datalogs |->
                    IF HasEnabledInverter(d) THEN "Connected" ELSE "Absent"]
    /\ to_inverter = [d \in Datalogs |-> <<>>]
    /\ writer = [d \in Datalogs |-> "ready"]
    /\ wire = [d \in Datalogs |-> NoFrame]
    /\ regs = [d \in Datalogs |-> [r \in {Register21} |-> 0]]
    /\ to_mqtt_subscribed = config.mqtt_enabled
    /\ stats = StatsDefault
    /\ arrived = 0
    /\ counts \in budgets
    /\ sent = {}
    /\ last = NoLast
    /\ lastIn = NoLastIn

Init == Started(Configs, Budgets, {NoHandshake})

(* ------------------------- MQTT command messages ----------------------- *)

\* A message on {namespace}/cmd/{target}/{verb}[/{arg}...] with its payload.
\* args and payload are sequences of numbers; id is the arrival order on
\* from_mqtt.
CommandMessage(target, verb, args, payload) ==
    [kind |-> "Message", target |-> target, verb |-> verb, args |-> args,
     payload |-> payload, id |-> 0]

SetHoldVerbs == {"charge_rate", "discharge_rate", "ac_charge_rate",
                 "ac_charge_soc_limit", "discharge_cutoff_soc_limit"}
UpdateHoldVerbs == {"ac_charge", "charge_priority", "forced_discharge"}

\* The verbs and arguments the environment publishes.
MessageBodies ==
    {<<"read_inputs", <<n>>, <<>>>> : n \in 0..5}
    \cup
    {<<"read_hold", <<Register21, 1>>, <<>>>>,
     <<"read_input", <<0, 41>>, <<>>>>, <<"read_input", <<0, 300>>, <<>>>>,
     <<"read_param", <<0>>, <<>>>>, <<"write_param", <<0>>, <<128>>>>,
     <<"set_hold", <<Register21>>, <<128>>>>,
     <<"set_ac_charge_time", <<1>>, <<1, 30, 2, 0>>>>,
     <<"read_ac_charge_time", <<1>>, <<>>>>,
     <<"ac_charge", <<>>, <<0>>>>, <<"ac_charge", <<>>, <<1>>>>,
     <<"charge_priority", <<>>, <<1>>>>, <<"forced_discharge", <<>>, <<1>>>>,
     <<"bogus", <<>>, <<>>>>}
    \cup {<<v, <<>>, <<50>>>> : v \in SetHoldVerbs}

\* The commands a run repeats after its first message.
FollowUpBodies ==
    {<<"read_hold", <<Register21, 1>>, <<>>>>,
     <<"set_hold", <<Register21>>, <<128>>>>,
     <<"ac_charge", <<>>, <<1>>>>, <<"ac_charge", <<>>, <<0>>>>}

CoreBodies ==
    (FollowUpBodies \ {<<"ac_charge", <<>>, <<0>>>>}) \cup {<<"bogus", <<>>, <<>>>>}

Messages ==
    {CommandMessage(t, b[1], b[2], b[3]) : t \in {"all"} \cup Datalogs, b \in CoreBodies}
    \cup {CommandMessage("D1", b[1], b[2], b[3]) : b \in MessageBodies}

FollowUps ==
    {CommandMessage("D1", b[1], b[2], b[3]) : b \in FollowUpBodies}

SimpleMessages ==
    {m \in Messages : m.target \in {"all", "D1"} /\ m.verb \in {"read_hold", "set_hold"}}
    \cup {m \in FollowUps : m.verb = "ac_charge" /\ m.payload = <<1>>}

MessagesOf(bodies) ==
    CASE bodies = "any" -> Messages
      [] bodies = "repeated" -> FollowUps
      [] bodies = "read" ->
            {CommandMessage("all", "read_hold", <<Register21, 1>>, <<>>)}
      [] OTHER -> SimpleMessages

KnownVerbs ==
    {"read_inputs", "read_input", "read_hold", "read_param", "write_param",
     "set_hold", "set_ac_charge_time", "read_ac_charge_time"}
    \cup SetHoldVerbs \cup UpdateHoldVerbs

\* An inverters_for_message that treats every target as 'all'.
InvertersForAll(message) == enabled_inverters

\* ConfigWrapper::inverters_for_message
inverters_for_message(message) ==
    IF message.target = "all" THEN enabled_inverters
    ELSE SelectSeq(enabled_inverters, LAMBDA i : i.datalog = message.target)

\* A to_command that accepts every page number of read_inputs.
ParseFailsUnknownVerb(message) == message.verb \notin KnownVerbs

\* mqtt::Message::to_command: the Command for one target inverter, or an
\* error for a verb that is no command and for a read_inputs page that is
\* none of 1..4.
ParseFails(message) ==
    \/ message.verb \notin KnownVerbs
    \/ message.verb = "read_inputs" /\ message.args[1] \notin 1..4

to_command(message, inverter) ==
    [verb |-> message.verb, inverter |-> inverter, args |-> message.args,
     payload |-> message.payload, id |-> message.id, stage |-> 1,
     prim |-> [kind |-> "None"], requests |-> <<>>, replies |-> <<>>]

\* Command::to_result_topic: {cmd_topic}/result
ResultTopic(datalog, verb, args) ==
    [kind |-> "result", datalog |-> datalog, verb |-> verb, args |-> args]

to_result_topic(command) ==
    ResultTopic(command.inverter.datalog, command.verb, command.args)

MqttMessage(topic, retain, payload) ==
    [topic |-> topic, retain |-> retain, payload |-> payload]

Payload(text, register, value) ==
    [text |-> text, register |-> register, value |-> value]

FailPayload == Payload("FAIL", 0, 0)

(* --------------------------- command primitives ------------------------ *)

Prim(kind, register, count, value) ==
    [kind |-> kind, register |-> register, count |-> count, value |-> value]

NoPrim == [kind |-> "None"]

\* A ReadInputs::run that always asks for the first block.
ReadInputsFirstBlock(inverter, register, count) ==
    TranslatedData(inverter.datalog, "ReadInput", inverter.serial, 0,
                   <<AsU8(count), 0>>)

\* ReadInputs::run, ReadHold::run, ReadParam::run, SetHold::run, WriteParam::run:
\* the request packet each builds.
ReadInputsRequest(inverter, register, count) ==
    TranslatedData(inverter.datalog, "ReadInput", inverter.serial, register,
                   <<AsU8(count), 0>>)

ReadHoldRequest(inverter, register, count) ==
    TranslatedData(inverter.datalog, "ReadHold", inverter.serial, register,
                   <<AsU8(count), 0>>)

ReadParamRequest(inverter, register) ==
    ParamPacket("ReadParam", inverter.datalog, register, <<>>)

SetHoldRequest(inverter, register, value) ==
    TranslatedData(inverter.datalog, "WriteSingle", inverter.serial, register,
                   ToLeBytes(value))

WriteParamRequest(inverter, register, value) ==
    ParamPacket("WriteParam", inverter.datalog, register, ToLeBytes(value))

RequestOf(inverter, prim) ==
    CASE prim.kind = "ReadInputs" -> ReadInputsRequest(inverter, prim.register, prim.count)
      [] prim.kind = "ReadHold" -> ReadHoldRequest(inverter, prim.register, prim.count)
      [] prim.kind = "ReadParam" -> ReadParamRequest(inverter, prim.register)
      [] prim.kind = "SetHold" -> SetHoldRequest(inverter, prim.register, prim.value)
      [] prim.kind = "WriteParam" -> WriteParamRequest(inverter, prim.register, prim.value)

\* A SetHold::run that writes whatever the inverter's mode.
SetHoldIgnoresReadOnly(inverter) == FALSE

\* SetHold::run refuses to write to an inverter in read-only mode.
SetHoldReadOnly(inverter) == inverter.read_only

\* WriteParam::run: the same refusal for the datalog parameters.
WriteParamReadOnly(inverter) == inverter.read_only

Refused(inverter, prim) ==
    \/ prim.kind = "SetHold" /\ SetHoldReadOnly(inverter)
    \/ prim.kind = "WriteParam" /\ WriteParamReadOnly(inverter)

\* A SetHold::run that accepts any echo.
SetHoldAcceptsAnyEcho(reply, value) == TRUE

\* SetHold::run accepts the reply only when it echoes the written value.
SetHoldReplyOk(reply, value) == PacketValue(reply) = value

ReplyOk(prim, reply) ==
    prim.kind = "SetHold" => SetHoldReplyOk(reply, prim.value)

\* A WaitForReply that takes the next packet of the same datalog.
MatchesDatalogOnly(request, packet) == packet.datalog = request.datalog

\* A WaitForReply that leaves the register out of the fingerprint.
MatchesAnyRegister(request, packet) ==
    /\ packet.kind = request.kind
    /\ packet.datalog = request.datalog
    /\ packet.device_function = request.device_function

\* WaitForReply: a reply matches the request it has the fingerprint of.
Matches(request, packet) == Fingerprint(packet) = Fingerprint(request)

(* ----------------------------- process_command ------------------------- *)

\* Time-register pack: [start_hour, start_minute, end_hour, end_minute] to
\* two words, each (minute << 8) | hour.
PackTime(hour, minute) == (minute * 256 + hour) % U16

\* time_register_ops::Action::AcCharge(num): the slot's first register.
TimeRegister(num) == AcChargeTimeRegister + 2 * (num - 1)

\* An UpdateHold that takes the lowest bit of the register for every command.
UpdateHoldBitLowest(verb) == 0

\* process_command: the RegisterBit each update_hold command names.
UpdateHoldBit(verb) ==
    CASE verb = "ac_charge" -> AcChargeEnableBit
      [] verb = "charge_priority" -> ChargePriorityEnableBit
      [] verb = "forced_discharge" -> ForcedDischargeEnableBit

SetHoldRegister(verb) ==
    CASE verb = "charge_rate" -> ChargePowerPercentCmd
      [] verb = "discharge_rate" -> DischgPowerPercentCmd
      [] verb = "ac_charge_rate" -> AcChargePowerCmd
      [] verb = "ac_charge_soc_limit" -> AcChargeSocLimit
      [] verb = "discharge_cutoff_soc_limit" -> DischgCutOffSocEod

\* The primitive process_command runs first for a command.
FirstPrim(command) ==
    LET v == command.verb
        a == command.args
        p == command.payload
    IN  CASE v = "read_inputs" ->
                Prim("ReadInputs", InputBlockSize * (a[1] - 1), InputBlockSize, 0)
          [] v = "read_input" -> Prim("ReadInputs", a[1], a[2], 0)
          [] v = "read_hold" -> Prim("ReadHold", a[1], a[2], 0)
          [] v = "read_param" -> Prim("ReadParam", a[1], 0, 0)
          [] v = "read_ac_charge_time" -> Prim("ReadHold", TimeRegister(a[1]), 2, 0)
          [] v = "set_hold" -> Prim("SetHold", a[1], 0, p[1])
          [] v = "write_param" -> Prim("WriteParam", a[1], 0, p[1])
          [] v = "set_ac_charge_time" ->
                Prim("SetHold", TimeRegister(a[1]), 0, PackTime(p[1], p[2]))
          [] v \in UpdateHoldVerbs -> Prim("ReadHold", Register21, 1, 0)
          [] v \in SetHoldVerbs -> Prim("SetHold", SetHoldRegister(v), 0, p[1])

\* An UpdateHold that flips the bit instead of setting it.
UpdateHoldToggles(value, bit, enable) ==
    IF BitIsSet(value, bit) THEN ClearBit(value, bit) ELSE SetBit(value, bit)

\* UpdateHold: the value written back after the read returned `value`.
UpdateHoldValue(value, bit, enable) ==
    IF enable THEN SetBit(value, bit) ELSE ClearBit(value, bit)

\* The primitive a command runs after its stage-1 primitive returned `reply`.
NextPrim(command, reply) ==
    LET v == command.verb
    IN  IF command.stage # 1 THEN NoPrim
        ELSE IF v \in UpdateHoldVerbs
        THEN Prim("SetHold", Register21, 0,
                  UpdateHoldValue(PacketValue(reply), UpdateHoldBit(v),
                                  command.payload[1] = 1))
        ELSE IF v = "set_ac_charge_time"
        THEN Prim("SetHold", TimeRegister(command.args[1]) + 1, 0,
                  PackTime(command.payload[3], command.payload[4]))
        ELSE NoPrim

\* A process_message that reports a failure with a retained message.
FailRepliesRetained(command, is_err) ==
    IF is_err
    THEN <<[topic |-> to_result_topic(command), retain |-> TRUE,
            payload |-> FailPayload]>>
    ELSE <<>>

\* A process_message that reports a failure whatever the result.
FailRepliesAlways(command, is_err) ==
    <<[topic |-> to_result_topic(command), retain |-> FALSE,
       payload |-> FailPayload]>>

\* A process_message that never reports a failure.
FailRepliesNever(command, is_err) == <<>>

\* process_message: the FAIL reply sent to the command's result topic when
\* process_command returned an error.
FailReplies(command, is_err) ==
    IF is_err
    THEN <<MqttMessage(to_result_topic(command), FALSE, FailPayload)>>
    ELSE <<>>

(* --------------------- mqtt_receiver / process_message ----------------- *)

\* A to_inverter whose send never fails.
ToInverterNeverCloses == TRUE

\* to_inverter is a broadcast channel: a send fails when no session holds a
\* subscription, and a session keeps only the frames of its own datalog.
ToInverterHasSubscriber == \E d \in Datalogs : session[d] = "Connected"

\* A process_message that gives up the message at the first failing command.
BailsOnFailure(fails) == fails # <<>>

\* process_message: bail! out of the message when the FAIL reply cannot be
\* sent on to_mqtt.
Bails(fails) == fails # <<>> /\ ~to_mqtt_subscribed

\* process_message after process_command returned for `command`: publish
\* FAIL on an error (ending the whole message when to_mqtt is closed) and go
\* on with the inverters that remain.
Finish(command, ok, error, reply, remaining) ==
    LET fails == FailReplies(command, ~ok)
        bailed == Bails(fails)
        rest == IF bailed THEN <<>> ELSE remaining
    IN  /\ last' = [verb |-> command.verb, command |-> command, ok |-> ok,
                    error |-> error, reply |-> reply,
                    requests |-> command.requests,
                    fails |-> fails, bailed |-> bailed]
        /\ targets' = rest
        /\ pc' = IF rest = <<>> THEN "recv" ELSE "loop"
        /\ msg' = IF rest = <<>> THEN NoMessage ELSE msg
        /\ cmd' = NoCommand
        /\ waiter' = NoWaiter
        /\ UNCHANGED <<to_inverter, sent>>

\* A run() whose receiver does not exist yet when the request is sent.
SubscribeAfterSend(request) ==
    [subscribed |-> FALSE, request |-> request, reply |-> NoPacket,
     lost |-> FALSE]

\* channels.from_inverter.subscribe(), the statement before the send: the
\* receiver sees every packet broadcast from now on.
Subscribe(request) ==
    [subscribed |-> TRUE, request |-> request, reply |-> NoPacket,
     lost |-> FALSE]

\* A primitive's run() up to its wait: refuse a write to a read-only
\* inverter, else subscribe to from_inverter and send the request.
Start(command, prim, remaining) ==
    LET inverter == command.inverter
        request == RequestOf(inverter, prim)
        d == request.datalog
        running == [command EXCEPT !.prim = prim,
                                   !.requests = Append(@, request)]
    IN  IF Refused(inverter, prim)
        THEN Finish([command EXCEPT !.prim = prim], FALSE, "ReadOnly", NoPacket, remaining)
        ELSE IF ~ToInverterHasSubscriber
        THEN Finish([command EXCEPT !.prim = prim], FALSE, "ChannelClosed", NoPacket, remaining)
        ELSE /\ to_inverter' =
                    [to_inverter EXCEPT ![d] =
                        IF session[d] = "Connected"
                        THEN Append(@, [packet |-> request, id |-> command.id])
                        ELSE @]
             /\ sent' = sent \cup {request}
             /\ waiter' = Subscribe(request)
             /\ cmd' = running
             /\ pc' = "wait"
             /\ targets' = remaining
             /\ UNCHANGED <<last, msg>>

\* The MQTT gateway forwards a command message to from_mqtt, until it is
\* stopped; a message sent after the mqtt_receiver returned has no receiver.
MqttCommandArrives ==
    /\ lifecycle # "stopped"
    /\ pc # "off"
    /\ counts.messages > 0
    /\ \E m \in MessagesOf(counts.bodies) :
          from_mqtt' = IF pc = "done" THEN from_mqtt
                       ELSE Append(from_mqtt, [m EXCEPT !.id = arrived + 1])
    /\ arrived' = arrived + 1
    /\ counts' = [counts EXCEPT !.messages = @ - 1]
    /\ UNCHANGED <<offline, handshake, register_cache, config, lifecycle, pc, msg, targets, cmd, waiter, from_inverter,
                   ir, to_register_cache, cache, session, to_inverter, writer,
                   wire, regs, to_mqtt_subscribed, stats, sent, last, lastIn>>

\* mqtt_receiver: receive the next item; a Shutdown ends the loop, a message
\* starts process_message.
RecvMessage ==
    /\ pc = "recv"
    /\ from_mqtt # <<>>
    /\ from_mqtt' = Tail(from_mqtt)
    /\ LET m == Head(from_mqtt)
       IN  IF m.kind = "Shutdown"
           THEN /\ pc' = "done"
                /\ UNCHANGED <<msg, targets>>
           ELSE LET invs == IF config.mqtt_enabled
                            THEN inverters_for_message(m) ELSE <<>>
                IN  /\ targets' = invs
                    /\ msg' = IF invs = <<>> THEN NoMessage ELSE m
                    /\ pc' = IF invs = <<>> THEN "recv" ELSE "loop"
    /\ UNCHANGED <<offline, handshake, register_cache, config, lifecycle, cmd, waiter, from_inverter, ir,
                   to_register_cache, cache, session, to_inverter, writer,
                   wire, regs, to_mqtt_subscribed, stats, arrived, counts, sent, last, lastIn>>

\* process_message: the next target inverter of the message; parse the
\* command, count it, and run process_command up to its first wait.
DispatchNext ==
    /\ pc = "loop"
    /\ LET inverter == Head(targets)
           remaining == Tail(targets)
           command == to_command(msg, inverter)
       IN  IF ParseFails(msg)
           THEN /\ targets' = remaining
                /\ pc' = IF remaining = <<>> THEN "recv" ELSE "loop"
                /\ msg' = IF remaining = <<>> THEN NoMessage ELSE msg
                /\ UNCHANGED <<cmd, waiter, to_inverter, sent, last, stats>>
           ELSE /\ stats' = increment_packets_sent(stats)
                /\ IF command.verb = "read_inputs" /\ command.args[1] \notin 1..4
                   THEN \* ReadInputs(_, _) => unreachable!()
                        /\ pc' = "panicked"
                        /\ UNCHANGED <<msg, targets, cmd, waiter, to_inverter,
                                       sent, last>>
                   ELSE Start(command, FirstPrim(command), remaining)
    /\ UNCHANGED <<offline, handshake, register_cache, config, lifecycle, from_mqtt, from_inverter, ir,
                   to_register_cache, cache, session, writer, wire, regs,
                   to_mqtt_subscribed, arrived, counts, lastIn>>

\* wait_for_reply returns the matching reply: post-validate it, then run the
\* command's next primitive or finish the command.
WaitReturns ==
    /\ pc = "wait"
    /\ waiter.reply # NoPacket
    /\ LET reply == waiter.reply
           ok == ReplyOk(cmd.prim, reply)
           next == NextPrim(cmd, reply)
           returned == [cmd EXCEPT !.replies = Append(@, reply)]
       IN  IF ~ok
           THEN Finish(returned, FALSE, "WriteMismatch", reply, targets)
           ELSE IF next = NoPrim
           THEN Finish(returned, TRUE, "None", reply, targets)
           ELSE Start([returned EXCEPT !.stage = @ + 1], next, targets)
    /\ UNCHANGED <<offline, handshake, register_cache, config, lifecycle, from_mqtt, from_inverter, ir,
                   to_register_cache, cache, session, writer, wire, regs,
                   to_mqtt_subscribed, stats, arrived, counts, lastIn>>

\* A wait_for_reply without a timeout.
WaitNeverTimesOut ==
    /\ pc = "wait"
    /\ FALSE
    /\ UNCHANGED vars

\* wait_for_reply gives up: no matching reply arrived within the timeout.
WaitTimesOut ==
    /\ pc = "wait"
    /\ waiter.reply = NoPacket
    /\ ~waiter.lost
    /\ Finish(cmd, FALSE, "Timeout", NoPacket, targets)
    /\ UNCHANGED <<offline, handshake, register_cache, config, lifecycle, from_mqtt, from_inverter, ir,
                   to_register_cache, cache, session, writer, wire, regs,
                   to_mqtt_subscribed, stats, arrived, counts, lastIn>>

\* The session of the request's inverter drained while the primitive was
\* waiting: the waiter ends with the connection-lost error.
WaitLost ==
    /\ pc = "wait"
    /\ waiter.reply = NoPacket
    /\ waiter.lost
    /\ Finish(cmd, FALSE, "ConnectionLost", NoPacket, targets)
    /\ UNCHANGED <<offline, handshake, register_cache, config, lifecycle, from_mqtt, from_inverter, ir,
                   to_register_cache, cache, session, writer, wire, regs,
                   to_mqtt_subscribed, stats, arrived, counts, lastIn>>

(* ------------------ inverter_receiver / process_inverter_packet -------- *)

HoldTopic(datalog, register) ==
    [kind |-> "hold", datalog |-> datalog, verb |-> "", args |-> <<register>>]

StatusTopic(kind, datalog) ==
    [kind |-> kind, datalog |-> datalog, verb |-> "", args |-> <<>>]

\* A publish_hold_message that publishes the first register of the packet only.
PublishFirstHoldOnly(pairs, inverter) ==
    IF pairs = <<>> THEN <<>>
    ELSE <<MqttMessage([kind |-> "hold", datalog |-> inverter.datalog,
                        verb |-> "", args |-> <<pairs[1][1]>>], TRUE,
                       Payload("value", pairs[1][1], pairs[1][2]))>>

\* publish_hold_message: one retained message per (register, value) pair.
publish_hold_message(pairs, inverter) ==
    [i \in 1..Len(pairs) |->
        MqttMessage(HoldTopic(inverter.datalog, pairs[i][1]), TRUE,
                    Payload("value", pairs[i][1], pairs[i][2]))]

\* A write confirmation published as the retained holding-register value.
PublishWriteAsHold(register, value, inverter) ==
    publish_hold_message(<<<<register, value>>>>, inverter)

\* publish_write_confirmation: "OK: {register} = {value}" on {datalog}/write/status.
publish_write_confirmation(register, value, inverter) ==
    <<MqttMessage(StatusTopic("write/status", inverter.datalog), FALSE,
                  Payload("OK", register, value))>>

\* A write_multi confirmation published on the topic of single writes.
PublishMultiAsSingle(pairs, inverter) ==
    <<MqttMessage(StatusTopic("write/status", inverter.datalog), FALSE,
                  [text |-> "OK", pairs |-> pairs])>>

\* publish_write_multi_confirmation: "OK: {pairs}" on {datalog}/write_multi/status.
publish_write_multi_confirmation(pairs, inverter) ==
    <<MqttMessage(StatusTopic("write_multi/status", inverter.datalog), FALSE,
                  [text |-> "OK", pairs |-> pairs])>>

\* A process_inverter_packet that caches what was read and not what was
\* written.
CacheSendsReadsOnly(td) ==
    IF td.device_function = "ReadHold" THEN Pairs(td) ELSE <<>>

\* process_inverter_packet: the (register, value) updates sent to the
\* register cache for an accepted packet.
CacheSends(td) ==
    CASE td.device_function = "ReadHold" -> Pairs(td)
      [] td.device_function = "WriteSingle" -> <<<<td.register, PacketValue(td)>>>>
      [] td.device_function = "WriteMulti" -> Pairs(td)
      [] OTHER -> <<>>

\* publish_raw_input_messages_1: the first block of input registers, as one
\* message on {datalog}/inputs/1.
publish_raw_input_messages_1(td, inverter) ==
    IF td.register = 0 /\ Len(td.values) = 2 * InputBlockSize
    THEN <<MqttMessage(StatusTopic("inputs/1", inverter.datalog), FALSE,
                       [text |-> "inputs", pairs |-> <<>>])>>
    ELSE <<>>

\* publish_* functions that do not look at mqtt.enabled.
PublishesWhenDisabled(td, inverter) ==
    CASE td.device_function = "ReadInput" ->
            publish_raw_input_messages_1(td, inverter)
      [] td.device_function = "ReadHold" ->
            publish_hold_message(Pairs(td), inverter)
      [] td.device_function = "WriteSingle" ->
            publish_write_confirmation(td.register, PacketValue(td), inverter)
      [] td.device_function = "WriteMulti" ->
            publish_write_multi_confirmation(Pairs(td), inverter)
      [] OTHER -> <<>>

\* process_inverter_packet: the messages handed to publish_message for an
\* accepted packet (none while MQTT is disabled).
Publishes(td, inverter) ==
    IF ~config.mqtt_enabled THEN <<>>
    ELSE CASE td.device_function = "ReadInput" ->
                publish_raw_input_messages_1(td, inverter)
           [] td.device_function = "ReadHold" ->
                publish_hold_message(Pairs(td), inverter)
           [] td.device_function = "WriteSingle" ->
                publish_write_confirmation(td.register, PacketValue(td), inverter)
           [] td.device_function = "WriteMulti" ->
                publish_write_multi_confirmation(Pairs(td), inverter)
           [] OTHER -> <<>>

\* A process_inverter_packet without the serial check.
SerialNeverChecked(td, inverter) == FALSE

\* process_inverter_packet drops a packet whose inverter serial is not the
\* configured one.
SerialMismatch(td, inverter) == td.inverter # inverter.serial

\* inverter_receiver: receive the next item of from_inverter; a Shutdown ends
\* the loop, a packet is counted and, when it is TranslatedData of an enabled
\* inverter, processed. `recv().await?` returns the Lagged error of a
\* receiver that fell behind: the loop ends with Err, and try_join! in
\* Coordinator::start drops the mqtt_receiver with it.
ProcessInbound ==
    /\ ir = "running"
    /\ from_inverter # <<>>
    /\ from_inverter' = Tail(from_inverter)
    /\ LET p == Head(from_inverter)
           known == p.kind = "TranslatedData" /\ HasEnabledInverter(p.datalog)
           inverter == enabled_inverter_with_datalog(p.datalog)
           mismatch == known /\ SerialMismatch(p, inverter)
           accepted == known /\ ~mismatch
           updates == IF accepted THEN CacheSends(p) ELSE <<>>
           cached == IF register_cache = "running" THEN updates ELSE <<>>
           messages == IF accepted THEN Publishes(p, inverter) ELSE <<>>
           delivered == IF to_mqtt_subscribed THEN messages ELSE <<>>
           failed == IF to_mqtt_subscribed THEN 0 ELSE Len(messages)
       IN  IF p.kind = "Shutdown"
           THEN /\ ir' = "done"
                /\ UNCHANGED <<pc, stats, to_register_cache, lastIn>>
           ELSE IF p = Lagged
           THEN /\ ir' = "failed"
                /\ pc' = IF pc \in {"off", "done"} THEN pc ELSE "cancelled"
                /\ UNCHANGED <<stats, to_register_cache, lastIn>>
           ELSE /\ ir' = ir
                /\ pc' = pc
                /\ stats' = [stats EXCEPT
                        !.packets_received = @ + 1,
                        ![ReceivedCounter(p)] = @ + 1,
                        !.serial_mismatches = IF mismatch THEN @ + 1 ELSE @,
                        !.mqtt_messages_sent = @ + Len(delivered),
                        !.mqtt_errors = @ + 2 * failed,
                        !.register_cache_errors = @ + CacheErrors(updates)]
                /\ to_register_cache' = to_register_cache \o cached
                /\ lastIn' = [packet |-> p, accepted |-> accepted,
                              mismatch |-> mismatch, updates |-> updates,
                              published |-> messages, delivered |-> delivered]
    /\ UNCHANGED <<offline, handshake, register_cache, config, lifecycle, from_mqtt, msg, targets, cmd, waiter,
                   cache, session, to_inverter, writer, wire, regs,
                   to_mqtt_subscribed, arrived, counts, sent, last>>

(* ----------------------------- register cache -------------------------- *)

\* The register cache task stores the next RegisterData(register, value).
CacheStore ==
    /\ register_cache = "running"
    /\ to_register_cache # <<>>
    /\ LET u == Head(to_register_cache)
       IN  cache' = [r \in DOMAIN cache \cup {u[1]} |->
                        IF r = u[1] THEN u[2] ELSE cache[r]]
    /\ to_register_cache' = Tail(to_register_cache)
    /\ UNCHANGED <<offline, handshake, register_cache, config, lifecycle, from_mqtt, pc, msg, targets, cmd, waiter,
                   from_inverter, ir, session, to_inverter, writer, wire, regs,
                   to_mqtt_subscribed, stats, arrived, counts, sent, last, lastIn>>

(* ----------------------------- inverter session ------------------------ *)

\* The value the inverter holds in a register (0 when never written).
RegValue(d, r) == IF r \in DOMAIN regs[d] THEN regs[d][r] ELSE 0

RECURSIVE HoldWords(_, _, _)
HoldWords(d, r, count) ==
    IF count = 0 THEN <<>>
    ELSE ToLeBytes(RegValue(d, r)) \o HoldWords(d, r + 1, count - 1)

RECURSIVE Zeros(_)
Zeros(n) == IF n = 0 THEN <<>> ELSE <<0>> \o Zeros(n - 1)

\* The inverter's answer to a request frame: the registers asked for, or the
\* echo of a write.
HonestReply(d, q) ==
    CASE q.kind = "ReadParam" -> ParamPacket("ReadParam", d, q.register, ToLeBytes(0))
      [] q.kind = "WriteParam" -> q
      [] q.device_function = "ReadInput" ->
            [q EXCEPT !.values = Zeros(2 * q.values[1])]
      [] q.device_function = "ReadHold" ->
            [q EXCEPT !.values = HoldWords(d, q.register, q.values[1])]
      [] OTHER -> q

\* The frames an inverter sends that answer nothing or answer wrongly.
StrayPackets ==
    {TranslatedData("D1", f, "S1", Register21, ToLeBytes(v)) :
        f \in {"ReadHold", "WriteSingle"}, v \in Values}
    \cup {TranslatedData("D1", f, "S1", Register21, ToLeBytes(128)) :
        f \in {"ReadInput", "WriteMulti"}}
    \cup {TranslatedData(d, "ReadHold", s, Register21, ToLeBytes(128)) :
        d \in Datalogs, s \in Serials}
    \cup {TranslatedData("D1", "WriteSingle", "S2", Register21, ToLeBytes(128))}
    \cup {ParamPacket("ReadParam", "D1", 0, ToLeBytes(128)), Heartbeat("D1")}

\* broadcast::Sender::send as one receiver's queue sees it: the send never
\* waits; at capacity the oldest packet is overwritten and the receiver's
\* next recv() reports the lag.
BroadcastSend(queue, item) ==
    LET kept == IF queue # <<>> /\ Head(queue) = Lagged THEN Tail(queue) ELSE queue
    IN  IF Len(kept) < ChannelCapacity THEN Append(queue, item)
        ELSE <<Lagged>> \o Append(Tail(kept), item)

\* A connected session's reader decodes a frame and broadcasts it on
\* from_inverter: to the inverter_receiver and to a waiting primitive.
Broadcast(p) ==
    /\ from_inverter' = IF ir = "running" THEN BroadcastSend(from_inverter, p)
                        ELSE from_inverter
    /\ waiter' = IF /\ pc = "wait"
                    /\ waiter.subscribed
                    /\ waiter.reply = NoPacket
                    /\ ~waiter.lost
                    /\ Matches(waiter.request, p)
                 THEN [waiter EXCEPT !.reply = p]
                 ELSE waiter
    /\ handshake' = IF /\ handshake.state = "wait"
                       /\ handshake.waiter.reply = NoPacket
                       /\ Matches(handshake.waiter.request, p)
                    THEN [handshake EXCEPT !.waiter.reply = p]
                    ELSE handshake

\* The inverter answers the frame last written to its socket.
InverterReplies(d) ==
    /\ session[d] = "Connected"
    /\ ~wire[d].answered
    /\ LET q == wire[d].packet
       IN  /\ Broadcast(HonestReply(d, q))
           /\ regs' = IF q.kind = "TranslatedData" /\ q.device_function = "WriteSingle"
                      THEN [regs EXCEPT ![d] =
                              [r \in DOMAIN regs[d] \cup {q.register} |->
                                  IF r = q.register THEN PacketValue(q) ELSE regs[d][r]]]
                      ELSE regs
    /\ wire' = [wire EXCEPT ![d].answered = TRUE]
    /\ UNCHANGED <<offline, register_cache, config, lifecycle, from_mqtt, pc, msg, targets, cmd, ir,
                   to_register_cache, cache, session, to_inverter, writer,
                   to_mqtt_subscribed, stats, arrived, counts, sent, last, lastIn>>

\* The inverter sends a frame nobody asked for, or a wrong answer.
InverterStray ==
    /\ ToInverterHasSubscriber
    /\ counts.inbound > 0
    /\ \E p \in StrayPackets : Broadcast(p)
    /\ counts' = [counts EXCEPT !.inbound = @ - 1]
    /\ UNCHANGED <<offline, register_cache, config, lifecycle, from_mqtt, pc, msg, targets, cmd, ir,
                   to_register_cache, cache, session, to_inverter, writer, wire,
                   regs, to_mqtt_subscribed, stats, arrived, sent, last, lastIn>>

\* Disconnected -> Connecting -> Connected.
SessionConnects(d) ==
    /\ lifecycle # "stopped"
    /\ session[d] = "Disconnected"
    /\ session' = [session EXCEPT ![d] = "Connected"]
    /\ UNCHANGED <<offline, handshake, register_cache, config, lifecycle, from_mqtt, pc, msg, targets, cmd, waiter,
                   from_inverter, ir, to_register_cache, cache, to_inverter,
                   writer, wire, regs, to_mqtt_subscribed, stats, arrived, counts, sent,
                   last, lastIn>>

\* Draining: the socket is closed, the frames not yet written are lost, and
\* an outstanding waiter on this inverter is drained.
DrainedWaiter(ds) ==
    IF pc = "wait" /\ waiter.request.datalog \in ds /\ waiter.reply = NoPacket
    THEN [waiter EXCEPT !.lost = TRUE] ELSE waiter

Drained(d) ==
    /\ to_inverter' = [to_inverter EXCEPT ![d] = <<>>]
    /\ writer' = [writer EXCEPT ![d] = "ready"]
    /\ wire' = [wire EXCEPT ![d].answered = TRUE]
    /\ waiter' = DrainedWaiter({d})

\* Connected -> Draining -> Disconnected.
SessionDrops(d) ==
    /\ session[d] = "Connected"
    /\ counts.drops > 0
    /\ counts' = [counts EXCEPT !.drops = @ - 1]
    /\ session' = [session EXCEPT ![d] = "Disconnected"]
    /\ Drained(d)
    /\ UNCHANGED <<offline, handshake, register_cache, config, lifecycle, from_mqtt, pc, msg, targets, cmd,
                   from_inverter, ir, to_register_cache, cache, regs,
                   to_mqtt_subscribed, stats, arrived, sent, last, lastIn>>

\* A writer that does not pace.
WriterWritesAtOnce(d) == TRUE

\* The session writer takes the next frame of to_inverter, no sooner than
\* delay_ms after its previous frame, and writes it to the socket.
WriterMayWrite(d) == writer[d] = "ready"

WriterSends(d) ==
    /\ session[d] = "Connected"
    /\ to_inverter[d] # <<>>
    /\ WriterMayWrite(d)
    /\ wire' = [wire EXCEPT ![d] = [id |-> Head(to_inverter[d]).id,
                                    packet |-> Head(to_inverter[d]).packet,
                                    paced |-> writer[d] = "ready",
                                    answered |-> FALSE]]
    /\ to_inverter' = [to_inverter EXCEPT ![d] = Tail(@)]
    /\ writer' = [writer EXCEPT ![d] = "pacing"]
    /\ UNCHANGED <<offline, handshake, register_cache, config, lifecycle, from_mqtt, pc, msg, targets, cmd, waiter,
                   from_inverter, ir, to_register_cache, cache, session, regs,
                   to_mqtt_subscribed, stats, arrived, counts, sent, last, lastIn>>

\* delay_ms has passed since the writer's last frame.
DelayElapses(d) ==
    /\ writer[d] = "pacing"
    /\ to_inverter[d] # <<>>
    /\ writer' = [writer EXCEPT ![d] = "ready"]
    /\ UNCHANGED <<offline, handshake, register_cache, config, lifecycle, from_mqtt, pc, msg, targets, cmd, waiter,
                   from_inverter, ir, to_register_cache, cache, session,
                   to_inverter, wire, regs, to_mqtt_subscribed, stats, arrived, counts,
                   sent, last, lastIn>>

(* -------------------------------- lifecycle ---------------------------- *)

\* A Components::stop that signals from_inverter only.
ShutdownOnlyInverters ==
    /\ lifecycle = "running"
    /\ counts.stop
    /\ lifecycle' = "signalled"
    /\ from_inverter' = IF ir = "running" THEN Append(from_inverter, Shutdown)
                        ELSE from_inverter
    /\ UNCHANGED <<offline, handshake, register_cache, config, from_mqtt, pc, msg, targets, cmd, waiter, ir,
                   to_register_cache, cache, session, to_inverter, writer, wire,
                   regs, to_mqtt_subscribed, stats, arrived, counts, sent, last,
                   lastIn>>

\* Components::stop, first half: Shutdown is broadcast on from_inverter and
\* from_mqtt.
ShutdownSignals ==
    /\ lifecycle = "running"
    /\ counts.stop
    /\ lifecycle' = "signalled"
    /\ from_inverter' = IF ir = "running" THEN BroadcastSend(from_inverter, Shutdown)
                        ELSE from_inverter
    /\ from_mqtt' = IF pc \notin {"off", "done"} THEN Append(from_mqtt, Shutdown)
                    ELSE from_mqtt
    /\ UNCHANGED <<offline, handshake, register_cache, config, pc, msg, targets, cmd, waiter, ir, to_register_cache,
                   cache, session, to_inverter, writer, wire, regs,
                   to_mqtt_subscribed, stats, arrived, counts, sent, last, lastIn>>

\* Components::stop, second half, after the grace window: the inverters and
\* the MQTT gateway are stopped.
Teardown ==
    /\ lifecycle = "signalled"
    /\ lifecycle' = "stopped"
    /\ session' = [d \in Datalogs |->
                     IF session[d] = "Absent" THEN "Absent" ELSE "Disconnected"]
    /\ to_inverter' = [d \in Datalogs |-> <<>>]
    /\ writer' = [d \in Datalogs |-> "ready"]
    /\ wire' = [d \in Datalogs |-> [wire[d] EXCEPT !.answered = TRUE]]
    /\ to_mqtt_subscribed' = FALSE
    /\ waiter' = DrainedWaiter({d \in Datalogs : session[d] = "Connected"})
    /\ UNCHANGED <<offline, handshake, register_cache, config, from_mqtt, pc, msg, targets, cmd, from_inverter, ir,
                   to_register_cache, cache, regs, stats, arrived, counts, sent, last,
                   lastIn>>

(* --------------------------- on-connect handshake ---------------------- *)

\* An inverter_connected that stops after the six pages.
HandshakePagesOnly == [i \in 1..6 |-> Prim("ReadHold", 40 * (i - 1), 40, 0)]

\* inverter_connected: the reads it runs, in order: six pages of 40 holding
\* registers, then for num = 1, 2, 3 the AcCharge, ChargePriority,
\* ForcedDischarge and AcFirst time registers (two registers each).
HandshakeReads ==
    LET starts == <<68, 76, 84, 152>>
    IN  [i \in 1..18 |->
            IF i <= 6 THEN Prim("ReadHold", 40 * (i - 1), 40, 0)
            ELSE Prim("ReadHold",
                      starts[((i - 7) % 4) + 1] + 2 * ((i - 7) \div 4), 2, 0)]

\* increment_packets_sent, then the read's run() up to its wait.
HandshakeRun(h, inverter, step) ==
    LET request == RequestOf(inverter, HandshakeReads[step])
        d == request.datalog
    IN  /\ stats' = increment_packets_sent(stats)
        /\ IF ~ToInverterHasSubscriber
           THEN /\ handshake' = [h EXCEPT !.state = "failed", !.waiter = NoWaiter]
                /\ UNCHANGED <<to_inverter, sent>>
           ELSE /\ to_inverter' =
                      [to_inverter EXCEPT ![d] =
                          IF session[d] = "Connected"
                          THEN Append(@, [packet |-> request, id |-> 0])
                          ELSE @]
                /\ sent' = sent \cup {request}
                /\ handshake' = [h EXCEPT !.state = "wait", !.step = step,
                                          !.waiter = Subscribe(request),
                                          !.requests = Append(@, request)]

\* inverter_connected(datalog) is called: nothing for an unknown datalog or
\* without publish_holdings_on_connect, else the first read.
InverterConnected ==
    /\ handshake.state = "idle"
    /\ IF \/ ~HasEnabledInverter(handshake.datalog)
          \/ ~handshake.publish_holdings_on_connect
       THEN /\ handshake' = [handshake EXCEPT !.state = "done"]
            /\ UNCHANGED <<stats, to_inverter, sent>>
       ELSE HandshakeRun(handshake,
                         enabled_inverter_with_datalog(handshake.datalog), 1)
    /\ UNCHANGED <<offline, register_cache, config, lifecycle, from_mqtt, pc, msg, targets, cmd,
                   waiter, from_inverter, ir, to_register_cache, cache, session,
                   writer, wire, regs, to_mqtt_subscribed, arrived, counts,
                   last, lastIn>>

\* A read of inverter_connected returned its reply: the next read, or Ok.
HandshakeReturns ==
    /\ handshake.state = "wait"
    /\ handshake.waiter.reply # NoPacket
    /\ LET returned == [handshake EXCEPT !.replies = Append(@, handshake.waiter.reply)]
       IN  IF handshake.step = Len(HandshakeReads)
           THEN /\ handshake' = [returned EXCEPT !.state = "done", !.waiter = NoWaiter]
                /\ UNCHANGED <<stats, to_inverter, sent>>
           ELSE HandshakeRun(returned,
                             enabled_inverter_with_datalog(handshake.datalog),
                             handshake.step + 1)
    /\ UNCHANGED <<offline, register_cache, config, lifecycle, from_mqtt, pc, msg, targets, cmd,
                   waiter, from_inverter, ir, to_register_cache, cache, session,
                   writer, wire, regs, to_mqtt_subscribed, arrived, counts,
                   last, lastIn>>

\* An inverter_connected that goes on to its next read when a read failed.
HandshakeIgnoresTimeout ==
    /\ handshake.state = "wait"
    /\ handshake.waiter.reply = NoPacket
    /\ IF handshake.step = Len(HandshakeReads)
       THEN /\ handshake' = [handshake EXCEPT !.state = "failed", !.waiter = NoWaiter]
            /\ UNCHANGED <<stats, to_inverter, sent>>
       ELSE HandshakeRun(handshake,
                         enabled_inverter_with_datalog(handshake.datalog),
                         handshake.step + 1)
    /\ UNCHANGED <<offline, register_cache, config, lifecycle, from_mqtt, pc, msg, targets, cmd,
                   waiter, from_inverter, ir, to_register_cache, cache, session,
                   writer, wire, regs, to_mqtt_subscribed, arrived, counts,
                   last, lastIn>>

\* A read of inverter_connected timed out: `?` returns the error.
HandshakeTimesOut ==
    /\ handshake.state = "wait"
    /\ handshake.waiter.reply = NoPacket
    /\ handshake' = [handshake EXCEPT !.state = "failed", !.waiter = NoWaiter]
    /\ UNCHANGED <<offline, register_cache, config, lifecycle, from_mqtt, pc, msg, targets, cmd,
                   waiter, from_inverter, ir, to_register_cache, cache, session,
                   to_inverter, writer, wire, regs, to_mqtt_subscribed, stats,
                   arrived, counts, sent, last, lastIn>>

\* inverter_connected is about to be called for a datalog, with or without
\* publish_holdings_on_connect, while one read_hold command for all
\* inverters may arrive.
HandshakeInit ==
    Started({Config(FALSE, TRUE, FALSE, TRUE), Config(FALSE, FALSE, FALSE, TRUE)},
            {Budget(1, 0, 0, FALSE, "read")},
            {[NoHandshake EXCEPT !.state = "idle", !.datalog = d,
                                 !.publish_holdings_on_connect = f] :
                d \in Datalogs, f \in BOOLEAN})

\* The handshake next to the command loop and the sessions; the
\* inverter_receiver's own steps change nothing a waiter reads and are left
\* out.
HandshakeNext ==
    \/ InverterConnected
    \/ HandshakeReturns
    \/ HandshakeTimesOut
    \/ MqttCommandArrives
    \/ RecvMessage
    \/ DispatchNext
    \/ WaitReturns
    \/ WaitTimesOut
    \/ \E d \in Datalogs : InverterReplies(d)
    \/ \E d \in Datalogs : WriterSends(d)
    \/ \E d \in Datalogs : DelayElapses(d)

HandshakeSpec == HandshakeInit /\ [][HandshakeNext]_vars

\* A connected inverter sends frames of its own accord: Heartbeats in a run
\* that outpaces the inverter_receiver, else replies that arrive late, of
\* one and of two register pairs and of a whole input block.
InverterSends ==
    /\ counts.inbound > 0
    /\ \E d \in Datalogs :
          /\ session[d] = "Connected"
          /\ \E p \in IF counts.bodies = "lag" THEN {Heartbeat(d)}
                       ELSE {TranslatedData(d, "ReadHold", "S1", Register21, <<128, 0, 1, 0>>),
                             TranslatedData(d, "WriteMulti", "S1", Register21, <<128, 0, 1, 0>>),
                             TranslatedData(d, "WriteSingle", "S1", Register21, <<128, 0>>),
                             TranslatedData(d, "ReadInput", "S1", 0, Zeros(2 * InputBlockSize))} :
                Broadcast(p)
    /\ counts' = [counts EXCEPT !.inbound = @ - 1]
    /\ UNCHANGED <<offline, register_cache, config, lifecycle, from_mqtt, pc, msg,
                   targets, cmd, ir, to_register_cache, cache, session,
                   to_inverter, writer, wire, regs, to_mqtt_subscribed, stats,
                   arrived, sent, last, lastIn>>

\* RegisterCache::start returns: its receiver is dropped, with what it had
\* not stored yet.
RegisterCacheEnds ==
    /\ register_cache = "running"
    /\ register_cache' = "ended"
    /\ to_register_cache' = <<>>
    /\ UNCHANGED <<offline, handshake, config, lifecycle, from_mqtt, pc, msg,
                   targets, cmd, waiter, from_inverter, ir, cache, session,
                   to_inverter, writer, wire, regs, to_mqtt_subscribed, stats,
                   arrived, counts, sent, last, lastIn>>

\* The inverter_receiver and its sinks, without commands: one inverter sends
\* more Heartbeats than the channel holds; or it sends two late replies
\* while the register cache task may end and the application may stop.
ReceiverInit ==
    Started({Config(FALSE, FALSE, FALSE, TRUE)},
            {Budget(0, ChannelCapacity + 1, 0, FALSE, "lag"),
             Budget(0, 2, 0, TRUE, "sink")},
            {NoHandshake})

ReceiverNext ==
    \/ InverterSends
    \/ ProcessInbound
    \/ CacheStore
    \/ RegisterCacheEnds
    \/ ShutdownSignals
    \/ Teardown

ReceiverSpec == ReceiverInit /\ [][ReceiverNext]_vars

Next ==
    \/ MqttCommandArrives
    \/ RecvMessage
    \/ DispatchNext
    \/ WaitReturns
    \/ WaitTimesOut
    \/ WaitLost
    \/ ProcessInbound
    \/ CacheStore
    \/ InverterStray
    \/ \E d \in Datalogs : InverterReplies(d)
    \/ \E d \in Datalogs : SessionConnects(d)
    \/ \E d \in Datalogs : SessionDrops(d)
    \/ \E d \in Datalogs : WriterSends(d)
    \/ \E d \in Datalogs : DelayElapses(d)
    \/ ShutdownSignals
    \/ Teardown

Spec == Init /\ [][Next]_vars

\* The command loop and the on-connect handshake side by side: a run is
\* either one of Spec or one of HandshakeSpec.
DispatchInit == Init \/ HandshakeInit

DispatchRuns ==
    \/ handshake.state = "off" /\ Next
    \/ handshake.state # "off" /\ HandshakeNext

DispatchSpec == DispatchInit /\ [][DispatchRuns]_vars

\* Before the application starts: nothing runs and no channel holds anything.
NotStarted ==
    /\ handshake = NoHandshake
    /\ register_cache = "running"
    /\ config = Config(FALSE, TRUE, FALSE, TRUE)
    /\ lifecycle = "stopped"
    /\ from_mqtt = <<>>
    /\ pc = "off"
    /\ msg = NoMessage
    /\ targets = <<>>
    /\ cmd = NoCommand
    /\ waiter = NoWaiter
    /\ from_inverter = <<>>
    /\ ir = "done"
    /\ to_register_cache = <<>>
    /\ cache = [r \in {} |-> 0]
    /\ session = [d \in Datalogs |-> "Absent"]
    /\ to_inverter = [d \in Datalogs |-> <<>>]
    /\ writer = [d \in Datalogs |-> "ready"]
    /\ wire = [d \in Datalogs |-> NoFrame]
    /\ regs = [d \in Datalogs |-> [r \in {Register21} |-> 0]]
    /\ to_mqtt_subscribed = FALSE
    /\ stats = StatsDefault
    /\ arrived = 0
    /\ counts = Budget(0, 0, 0, FALSE, "simple")
    /\ sent = {}
    /\ last = NoLast
    /\ lastIn = NoLastIn

\* A configuration file is about to be loaded.
ConfigInit ==
    /\ file \in Files
    /\ loaded = NotLoaded
    /\ time_register = NoTime
    /\ codec = NoCodec
    /\ app = NoApp
    /\ NotStarted

\* ConfigWrapper::new at startup: Config::new reads the file.
LoadConfig ==
    /\ loaded = NotLoaded
    /\ loaded' = ConfigNew(file)
    /\ UNCHANGED <<file, time_register, codec, app, coordinator>>

ConfigNext == LoadConfig

\* A time slot [start_hour, start_minute, end_hour, end_minute] is about to
\* be written, or a packet is about to be encoded.
PureInit ==
    /\ file = BaseFile
    /\ loaded = ConfigNew(BaseFile)
    /\ \/ /\ time_register \in {[NoTime EXCEPT !.values = v] : v \in TimeSlots}
          /\ codec = NoCodec
       \/ /\ time_register = NoTime
          /\ codec \in {[NoCodec EXCEPT !.packet = p] : p \in Packets}
    /\ app = NoApp
    /\ NotStarted

\* SetTimeRegister: the four bytes become the values of two registers.
PackWords ==
    /\ time_register.values # <<>>
    /\ time_register.words = <<>>
    /\ time_register' =
          [time_register EXCEPT
             !.words = <<PackTime(time_register.values[1], time_register.values[2]),
                         PackTime(time_register.values[3], time_register.values[4])>>]
    /\ UNCHANGED <<file, loaded, codec, app, coordinator>>

\* The two registers are read back and parsed.
UnpackWords ==
    /\ time_register.words # <<>>
    /\ time_register.parsed = <<>>
    /\ time_register' =
          [time_register EXCEPT
             !.parsed = UnpackTime(time_register.words[1])
                        \o UnpackTime(time_register.words[2])]
    /\ UNCHANGED <<file, loaded, codec, app, coordinator>>

\* The writer encodes the packet into a frame.
EncodePacket ==
    /\ codec.packet # NoPacket
    /\ codec.bytes = <<>>
    /\ codec' = [codec EXCEPT !.bytes = encode(codec.packet)]
    /\ UNCHANGED <<file, loaded, time_register, app, coordinator>>

\* The reader decodes the frame.
DecodeFrame ==
    /\ codec.bytes # <<>>
    /\ codec.decoded.result = "None"
    /\ codec' = [codec EXCEPT !.decoded = decode(codec.bytes)]
    /\ UNCHANGED <<file, loaded, time_register, app, coordinator>>

PureNext == PackWords \/ UnpackWords \/ EncodePacket \/ DecodeFrame

\* The pure conversions, each applied to every input of its set: packing
\* and parsing a time slot of TimeSlots, encoding and decoding a packet of
\* Packets.
PureSpec == PureInit /\ [][PureNext]_vars

(* ------------------------ application startup and stop ----------------- *)

\* app: the components in the order it starts them. The coordinator and the
\* register cache are spawned as tasks; the scheduler and the MQTT gateway
\* are started together and run until the application ends.
StartupOrder ==
    <<"databases", "influx", "coordinator", "register_cache", "inverters",
      "scheduler_mqtt">>

\* Components::stop: the Shutdown sentinels, the 500 ms sleep, the summary,
\* and then the components in the order it stops them.
StopOrder ==
    <<"signals", "grace", "statistics", "inverters", "databases", "mqtt",
      "influx", "coordinator">>

\* app is entered: the components are created and none is started.
AppInit ==
    /\ file = BaseFile
    /\ loaded = ConfigNew(BaseFile)
    /\ time_register = NoTime
    /\ codec = NoCodec
    /\ app = [phase |-> "starting", started |-> <<>>, stopped |-> <<>>,
              tasks |-> [t \in {"coordinator", "register_cache"} |-> "created"],
              first |-> [d \in Datalogs |-> "none"],
              result |-> "running"]
    /\ NotStarted

\* app starts its next component. influx.start may return an error: app then
\* stops the components and returns the error. tokio::spawn only creates the
\* task of the coordinator and of the register cache.
StartNext ==
    /\ app.phase = "starting"
    /\ LET c == StartupOrder[Len(app.started) + 1]
           began == [app EXCEPT !.started = Append(@, c)]
       IN  \/ /\ c = "influx"
              /\ app' = [app EXCEPT !.phase = "stopping", !.result = "Err"]
           \/ /\ c \in {"coordinator", "register_cache"}
              /\ app' = [began EXCEPT !.tasks[c] = "spawned"]
           \/ /\ c = "scheduler_mqtt"
              /\ app' = [began EXCEPT !.phase = "serving"]
           \/ /\ c \in {"databases", "influx", "inverters"}
              /\ app' = began
    /\ UNCHANGED <<file, loaded, time_register, codec, coordinator>>

\* A spawned task is polled for the first time: Coordinator::start enters
\* inverter_receiver, which subscribes to from_inverter; RegisterCache::start
\* subscribes to its channel.
TaskRuns ==
    /\ \E t \in DOMAIN app.tasks :
          /\ app.tasks[t] = "spawned"
          /\ app' = [app EXCEPT !.tasks[t] = "subscribed"]
    /\ UNCHANGED <<file, loaded, time_register, codec, coordinator>>

\* A started inverter session broadcasts its first packet on from_inverter:
\* the coordinator receives it when its subscription exists, and else the
\* packet is gone for it.
InverterFirstPacket ==
    /\ app.phase \in {"starting", "serving", "stopping"}
    /\ \E k \in 1..Len(app.started) : app.started[k] = "inverters"
    /\ \A k \in 1..Len(app.stopped) : app.stopped[k] # "inverters"
    /\ \E d \in Datalogs :
          /\ app.first[d] = "none"
          /\ app' = [app EXCEPT !.first[d] =
                        IF app.tasks["coordinator"] = "subscribed"
                        THEN "received" ELSE "missed"]
    /\ UNCHANGED <<file, loaded, time_register, codec, coordinator>>

\* Ctrl+C arrives, or the scheduler and the MQTT gateway return: the select!
\* of app completes.
ShutdownRequested ==
    /\ app.phase = "serving"
    /\ app' = [app EXCEPT !.phase = "stopping", !.result = "Ok"]
    /\ UNCHANGED <<file, loaded, time_register, codec, coordinator>>

\* Components::stop takes its next step.
StopNext ==
    /\ app.phase = "stopping"
    /\ LET e == StopOrder[Len(app.stopped) + 1]
           after == [app EXCEPT !.stopped = Append(@, e)]
       IN  app' = IF Len(after.stopped) = Len(StopOrder)
                  THEN [after EXCEPT !.phase = "returned"] ELSE after
    /\ UNCHANGED <<file, loaded, time_register, codec, coordinator>>

AppNext ==
    \/ StartNext
    \/ TaskRuns
    \/ InverterFirstPacket
    \/ ShutdownRequested
    \/ StopNext

AppSpec == AppInit /\ [][AppNext]_vars

\* Loading a configuration file, for every file of Files.
ConfigSpec == ConfigInit /\ [][ConfigNext]_vars

\* The coordinator's command loop is scheduled and its timers fire: a wait
\* that can end does end.
FairSpec ==
    /\ Spec
    /\ WF_vars(WaitReturns)
    /\ WF_vars(WaitTimesOut)
    /\ WF_vars(WaitLost)

\* The coordinator's two receive loops are tasks of the runtime: a loop that
\* can take its next step eventually takes it.
LoopsFairSpec ==
    /\ FairSpec
    /\ WF_vars(RecvMessage)
    /\ WF_vars(DispatchNext)
    /\ WF_vars(ProcessInbound)

(* ------------------------------ properties ----------------------------- *)

\* The configured inverter a frame on to_inverter is addressed to.
ReadOnlyDatalog(datalog) ==
    \E k \in 1..Len(config.inverters) :
        /\ config.inverters[k].datalog = datalog
        /\ config.inverters[k].read_only

C2_ReadOnlyRefusal ==
    (last.verb # "None" /\ last.command.prim.kind = "SetHold"
        /\ last.command.inverter.read_only)
    => /\ ~last.ok
       /\ last.error = "ReadOnly"
       /\ RequestOf(last.command.inverter, last.command.prim) \notin sent
       /\ \A i \in 1..Len(last.requests) : ~IsWriteFrame(last.requests[i])
       /\ last.verb = "set_hold" =>
             /\ last.requests = <<>>
             /\ last.fails = <<MqttMessage(to_result_topic(last.command), FALSE,
                                           FailPayload)>>

C2_Witness ==
    /\ last.verb = "set_hold"
    /\ last.command.inverter.read_only
    /\ last.error = "ReadOnly"
    /\ sent = {}
    /\ Len(last.fails) = 1

\* The primitive of `cmd` returns in this step, and what it returns.
RunReturns == pc = "wait" /\ cmd' # cmd
ReturnedCommand == IF cmd' = NoCommand THEN last'.command ELSE cmd'
ReturnsError == cmd' = NoCommand /\ ~last'.ok

\* A packet is broadcast on from_inverter in this step.
Broadcasts ==
    /\ ir = "running"
    /\ Len(from_inverter') > Len(from_inverter)
    /\ from_inverter'[Len(from_inverter')].kind # "Shutdown"
Broadcasted == from_inverter'[Len(from_inverter')]

\* C3: the first packet broadcast on from_inverter after the request was
\* sent whose fingerprint (variant, datalog, device function, register) is
\* the request's is the packet run() returns; when the timeout passes with
\* no such packet, run() fails with the timeout error.
C3_ReplyMatching ==
    [][ /\ (Broadcasts /\ pc = "wait" /\ waiter.reply = NoPacket /\ ~waiter.lost
            /\ Fingerprint(Broadcasted) = Fingerprint(waiter.request))
           => waiter'.reply = Broadcasted
        /\ (Broadcasts /\ pc = "wait" /\ waiter.reply = NoPacket
            /\ Fingerprint(Broadcasted) # Fingerprint(waiter.request))
           => waiter'.reply = NoPacket
        /\ (RunReturns /\ waiter.reply # NoPacket)
           => /\ Len(ReturnedCommand.replies) = Len(cmd.replies) + 1
              /\ ReturnedCommand.replies[Len(ReturnedCommand.replies)] = waiter.reply
              /\ ReturnsError => last'.error # "Timeout"
        /\ (RunReturns /\ waiter.reply = NoPacket /\ ~waiter.lost)
           => /\ ReturnsError
              /\ last'.error = "Timeout"
              /\ last'.reply = NoPacket ]_vars

\* A read returned the inverter's answer although another packet of the same
\* inverter was broadcast first.
C3_Witness ==
    /\ last.verb = "read_hold"
    /\ last.ok
    /\ last.reply = HonestReply(last.command.inverter.datalog, last.requests[1])
    /\ lastIn.packet # NoPacket
    /\ lastIn.packet.kind = "TranslatedData"
    /\ lastIn.packet.datalog = last.command.inverter.datalog
    /\ Fingerprint(lastIn.packet) # Fingerprint(last.requests[1])
    /\ from_inverter # <<>>
    /\ Head(from_inverter) = last.reply

\* C4: SetHold::run on a writable inverter returns Ok only if the value the
\* matched reply carries is the value written; a reply that echoes another
\* value makes the call fail with the write-mismatch error.
C4_WriteVerified ==
    (last.verb # "None" /\ last.command.prim.kind = "SetHold"
        /\ ~last.command.inverter.read_only /\ last.reply # NoPacket)
    => /\ last.ok <=> PacketValue(last.reply) = last.command.prim.value
       /\ ~last.ok => last.error = "WriteMismatch"

C4_Witness ==
    /\ last.verb = "set_hold"
    /\ ~last.command.inverter.read_only
    /\ last.error = "WriteMismatch"
    /\ PacketValue(last.reply) # last.command.prim.value

\* The FAIL message process_message sends for the last finished command.
LastFail ==
    MqttMessage(ResultTopic(last.command.inverter.datalog, last.verb,
                            last.command.args), FALSE, FailPayload)

\* The last finished command is a set_hold, and the inverter_receiver has
\* just processed the reply that set_hold matched.
SetHoldReplyProcessed ==
    /\ last.verb = "set_hold"
    /\ last.reply # NoPacket
    /\ lastIn.packet = last.reply

\* C5: a set_hold for register r with value v answered by a WriteSingle
\* reply echoing another value is answered by FAIL on its result topic, and
\* no register-cache update for r is sent as a consequence of that reply.
C5_MismatchLeavesCache ==
    (SetHoldReplyProcessed /\ PacketValue(last.reply) # last.command.prim.value)
    => /\ last.fails = <<LastFail>>
       /\ \A i \in 1..Len(lastIn.updates) :
             lastIn.updates[i][1] # last.command.prim.register

\* C6 as stated: a set_hold for register r with value v on a writable
\* inverter answered by a WriteSingle reply echoing v makes the coordinator
\* publish a retained message on {datalog}/hold/{r} with payload v, makes
\* the cache entry for r become v, and publishes no FAIL.
C6_RetainedHoldPublished ==
    (SetHoldReplyProcessed /\ last.ok)
    => /\ lastIn.published =
             <<MqttMessage(HoldTopic(last.command.inverter.datalog,
                                     last.command.prim.register), TRUE,
                           Payload("value", last.command.prim.register,
                                   last.command.prim.value))>>
       /\ lastIn.updates = <<<<last.command.prim.register, last.command.prim.value>>>>
       /\ last.fails = <<>>

\* C6: a set_hold for register r with value v on a writable inverter
\* answered by a WriteSingle reply echoing v publishes no FAIL; when the
\* reply carries the inverter's configured serial the coordinator sends the
\* non-retained confirmation "OK: r = v" on {datalog}/write/status and the
\* cache update (r, v); when it carries another serial the coordinator
\* sends neither.
C6_WriteConfirmed ==
    (SetHoldReplyProcessed /\ last.ok)
    => /\ last.fails = <<>>
       /\ IF lastIn.packet.inverter = last.command.inverter.serial
          THEN /\ lastIn.published =
                     <<MqttMessage(StatusTopic("write/status",
                                               last.command.inverter.datalog),
                                   FALSE,
                                   Payload("OK", last.command.prim.register,
                                           last.command.prim.value))>>
               /\ lastIn.updates =
                     <<<<last.command.prim.register, last.command.prim.value>>>>
          ELSE /\ lastIn.published = <<>>
               /\ lastIn.updates = <<>>

\* The set_hold succeeded, its reply was processed, and the register cache
\* stored the value.
C6_Witness ==
    /\ SetHoldReplyProcessed
    /\ last.ok
    /\ lastIn.accepted
    /\ Len(lastIn.delivered) = 1
    /\ last.command.prim.register \in DOMAIN cache
    /\ cache[last.command.prim.register] = last.command.prim.value

\* C7: for every command dispatched for a target inverter, an error of its
\* primitive makes process_message send exactly one non-retained FAIL
\* message on to_mqtt to the command's result topic, and Ok makes it send
\* no FAIL.
C7_FailIffError ==
    last.verb # "None" =>
        last.fails = IF last.ok THEN <<>> ELSE <<LastFail>>

\* A read-modify-write command failed at its second primitive.
C7_Witness ==
    /\ last.verb = "ac_charge"
    /\ ~last.ok
    /\ Len(last.requests) = 2
    /\ last.fails = <<LastFail>>

\* C8: a read_hold whose request is never answered is, at the timeout,
\* answered by FAIL on its result topic; the request is not sent again
\* (exactly one request frame was put on to_inverter) and the inverter
\* session stays as it is.
C8_TimeoutFailsOnce ==
    [][ (RunReturns /\ waiter.reply = NoPacket /\ ~waiter.lost
            /\ cmd.verb = "read_hold")
        => /\ last'.error = "Timeout"
           /\ last'.fails =
                 <<MqttMessage(ResultTopic(cmd.inverter.datalog, "read_hold",
                                           cmd.args), FALSE, FailPayload)>>
           /\ last'.requests =
                 <<ReadHoldRequest(cmd.inverter, cmd.args[1], cmd.args[2])>>
           /\ sent' = sent
           /\ to_inverter' = to_inverter
           /\ wire' = wire
           /\ session' = session ]_vars

\* The request was written to the socket, was never answered, and the
\* session is still connected after the timeout.
C8_Witness ==
    /\ last.verb = "read_hold"
    /\ last.error = "Timeout"
    /\ last.fails = <<LastFail>>
    /\ LET d == last.command.inverter.datalog
       IN  /\ session[d] = "Connected"
           /\ wire[d].packet = last.requests[1]
           /\ ~wire[d].answered
           /\ to_inverter[d] = <<>>

\* C9: every run() of a command primitive eventually returns, with a reply
\* or an error, even when the inverter never answers: no wait for a reply
\* lasts forever.
C9_RunEventuallyReturns ==
    \A n \in {1, 2} :
        (pc = "wait" /\ cmd.stage = n) ~> (pc # "wait" \/ cmd.stage # n)

\* The second primitive of a read-modify-write command was never answered
\* and returned at the timeout.
C9_Witness ==
    /\ last.verb = "ac_charge"
    /\ last.error = "Timeout"
    /\ Len(last.requests) = 2
    /\ last.command.stage = 2

HoldReplySettled ==
    /\ last.verb # "None"
    /\ last.ok
    /\ last.command.prim.kind \in {"ReadHold", "SetHold"}
    /\ lastIn.packet = last.reply
    /\ from_inverter = <<>>
    /\ to_register_cache = <<>>

\* The cache holds every (register, value) pair the packet carries.
CacheHolds(p) ==
    \A i \in 1..Len(Pairs(p)) :
        /\ Pairs(p)[i][1] \in DOMAIN cache
        /\ cache[Pairs(p)[i][1]] = Pairs(p)[i][2]

\* C11 as stated: after a ReadHold or SetHold returned Ok for register r,
\* the cache entry for r, once the cache task has consumed its channel, is
\* the value the last reply observed for r carries.
C11_CacheHoldsLastReply ==
    HoldReplySettled => CacheHolds(last.reply)

\* C11: after a ReadHold or SetHold returned Ok for register r with a reply
\* that carries the inverter's configured serial, the cache entry for r, once
\* the cache task has consumed its channel, is the value that reply carries;
\* a reply with another serial is dropped and sends the cache nothing.
C11_CacheHoldsAcceptedReply ==
    HoldReplySettled =>
        IF last.reply.inverter = last.command.inverter.serial
        THEN CacheHolds(last.reply)
        ELSE lastIn.updates = <<>> /\ lastIn.mismatch

\* A read_hold returned the inverter's answer and the cache stored it.
C11_Witness ==
    /\ HoldReplySettled
    /\ last.verb = "read_hold"
    /\ last.reply.inverter = last.command.inverter.serial
    /\ CacheHolds(last.reply)
    /\ Len(Pairs(last.reply)) = 1

\* A step of the inverter_receiver that takes a packet off from_inverter.
ReceivesPacket == stats'.packets_received = stats.packets_received + 1

\* The inverter_receiver's step sends nothing to the register cache and hands
\* nothing to MQTT.
PacketDropped ==
    /\ to_register_cache' = to_register_cache
    /\ lastIn'.published = <<>>
    /\ lastIn'.delivered = <<>>
    /\ stats'.mqtt_messages_sent = stats.mqtt_messages_sent
    /\ stats'.mqtt_errors = stats.mqtt_errors

\* C12: an inbound TranslatedData packet whose serial differs from the serial
\* configured for the enabled inverter with its datalog raises
\* serial_mismatches by exactly one, puts no message on to_mqtt and sends no
\* update to to_register_cache.
C12_SerialMismatchDropped ==
    [][(/\ ReceivesPacket
        /\ Head(from_inverter).kind = "TranslatedData"
        /\ \E k \in 1..Len(config.inverters) :
              /\ config.inverters[k].enabled
              /\ config.inverters[k].datalog = Head(from_inverter).datalog
              /\ config.inverters[k].serial # Head(from_inverter).inverter)
       => /\ stats'.serial_mismatches = stats.serial_mismatches + 1
          /\ PacketDropped
          /\ lastIn'.packet = Head(from_inverter)]_vars

\* A WriteSingle packet of D1 with a foreign serial was counted and dropped.
C12_Witness ==
    /\ lastIn.packet # NoPacket
    /\ lastIn.packet.kind = "TranslatedData"
    /\ lastIn.packet.device_function = "WriteSingle"
    /\ lastIn.packet.inverter # config.inverters[1].serial
    /\ lastIn.packet.datalog = config.inverters[1].datalog
    /\ stats.serial_mismatches = 1
    /\ to_register_cache = <<>>
    /\ cache = <<>>

\* C13: an inbound TranslatedData packet whose datalog belongs to no enabled
\* configured inverter is dropped: no message on to_mqtt, no update on
\* to_register_cache, serial_mismatches unchanged, and the receive loop goes
\* on.
C13_UnknownDatalogDropped ==
    [][(/\ ReceivesPacket
        /\ Head(from_inverter).kind = "TranslatedData"
        /\ \A k \in 1..Len(config.inverters) :
              ~(/\ config.inverters[k].enabled
                /\ config.inverters[k].datalog = Head(from_inverter).datalog))
       => /\ stats'.serial_mismatches = stats.serial_mismatches
          /\ PacketDropped
          /\ lastIn'.packet = Head(from_inverter)
          /\ ir' = "running"]_vars

\* A packet of the disabled inverter's datalog was received and dropped, and
\* the loop is still receiving.
C13_Witness ==
    /\ lastIn.packet # NoPacket
    /\ lastIn.packet.kind = "TranslatedData"
    /\ ~config.inverters[2].enabled
    /\ lastIn.packet.datalog = config.inverters[2].datalog
    /\ stats.packets_received = 1
    /\ stats.serial_mismatches = 0
    /\ ir = "running"
    /\ to_register_cache = <<>>

\* The inverter_receiver takes an accepted packet with that device function:
\* TranslatedData of an enabled inverter's datalog with its configured serial.
ReceivesAccepted(device_function) ==
    /\ ReceivesPacket
    /\ Head(from_inverter).kind = "TranslatedData"
    /\ Head(from_inverter).device_function = device_function
    /\ \E k \in 1..Len(config.inverters) :
          /\ config.inverters[k].enabled
          /\ config.inverters[k].datalog = Head(from_inverter).datalog
          /\ config.inverters[k].serial = Head(from_inverter).inverter

\* One RegisterData(reg, value) per pair is appended to to_register_cache, in
\* the order of the pairs.
CachesPairs(p) ==
    to_register_cache' = to_register_cache \o
        [i \in 1..Len(Pairs(p)) |-> <<Pairs(p)[i][1], Pairs(p)[i][2]>>]

\* One retained message per pair, with the value as payload, on
\* {datalog}/hold/{reg}, in the order of the pairs.
HoldMessages(p) ==
    [i \in 1..Len(Pairs(p)) |->
        [topic |-> HoldTopic(p.datalog, Pairs(p)[i][1]),
         retain |-> TRUE,
         payload |-> Payload("value", Pairs(p)[i][1], Pairs(p)[i][2])]]

\* C14 as stated: for every accepted inbound ReadHold packet and every
\* (reg, value) pair of it, exactly one RegisterData(reg, value) is sent to
\* the register cache and exactly one retained message with the value is
\* published on {datalog}/hold/{reg}, in the order of the pairs.
C14_HoldAlwaysPublished ==
    [][ReceivesAccepted("ReadHold")
       => /\ CachesPairs(Head(from_inverter))
          /\ lastIn'.published = HoldMessages(Head(from_inverter))]_vars

\* C14: for every accepted inbound ReadHold packet and every (reg, value)
\* pair of it, exactly one RegisterData(reg, value) is sent to the register
\* cache, in the order of the pairs; while MQTT is enabled exactly one
\* retained message with the value is handed to to_mqtt for
\* {datalog}/hold/{reg}, in the same order, and while MQTT is disabled none.
C14_HoldCachedAndPublished ==
    [][ReceivesAccepted("ReadHold")
       => /\ CachesPairs(Head(from_inverter))
          /\ lastIn'.published =
                IF config.mqtt_enabled
                THEN HoldMessages(Head(from_inverter)) ELSE <<>>]_vars

\* A ReadHold packet with two registers was accepted; both were sent to the
\* cache and published, the lower register first.
C14_Witness ==
    /\ lastIn.packet # NoPacket
    /\ lastIn.accepted
    /\ lastIn.packet.device_function = "ReadHold"
    /\ Len(Pairs(lastIn.packet)) = 2
    /\ Len(lastIn.updates) = 2
    /\ Len(lastIn.published) = 2
    /\ lastIn.published[1].topic.args[1] + 1 = lastIn.published[2].topic.args[1]
    /\ lastIn.published[1].retain

\* The status message of an accepted write packet: "OK: {reg} = {value}" on
\* {datalog}/write/status for WriteSingle, "OK: {pairs}" on
\* {datalog}/write_multi/status for WriteMulti, not retained.
WriteStatus(p) ==
    IF p.device_function = "WriteSingle"
    THEN [topic |-> [kind |-> "write/status", datalog |-> p.datalog,
                     verb |-> "", args |-> <<>>],
          retain |-> FALSE,
          payload |-> Payload("OK", p.register, PacketValue(p))]
    ELSE [topic |-> [kind |-> "write_multi/status", datalog |-> p.datalog,
                     verb |-> "", args |-> <<>>],
          retain |-> FALSE,
          payload |-> [text |-> "OK", pairs |-> Pairs(p)]]

\* C15 as stated: for every accepted inbound WriteSingle or WriteMulti packet
\* each (register, value) pair is sent to the register cache and exactly one
\* non-retained status message is published.
C15_WriteAlwaysPublished ==
    [][(ReceivesAccepted("WriteSingle") \/ ReceivesAccepted("WriteMulti"))
       => /\ CachesPairs(Head(from_inverter))
          /\ lastIn'.published = <<WriteStatus(Head(from_inverter))>>]_vars

\* C15: for every accepted inbound WriteSingle or WriteMulti packet each
\* (register, value) pair is sent to the register cache; while MQTT is enabled
\* exactly one non-retained status message is handed to to_mqtt, on
\* {datalog}/write/status with "OK: {reg} = {value}" for WriteSingle and on
\* {datalog}/write_multi/status for WriteMulti, and while MQTT is disabled
\* none.
C15_WriteCachedAndConfirmed ==
    [][(ReceivesAccepted("WriteSingle") \/ ReceivesAccepted("WriteMulti"))
       => /\ CachesPairs(Head(from_inverter))
          /\ lastIn'.published =
                IF config.mqtt_enabled
                THEN <<WriteStatus(Head(from_inverter))>> ELSE <<>>]_vars

\* A WriteMulti packet was accepted, cached and confirmed on
\* {datalog}/write_multi/status.
C15_Witness ==
    /\ lastIn.packet # NoPacket
    /\ lastIn.accepted
    /\ lastIn.packet.device_function = "WriteMulti"
    /\ lastIn.updates # <<>>
    /\ Len(lastIn.published) = 1
    /\ lastIn.published[1].topic.kind = "write_multi/status"
    /\ ~lastIn.published[1].retain

\* The inverters a command topic names: every enabled inverter for 'all',
\* the enabled inverters with that datalog for a datalog serial, in
\* configuration order.
TargetsOf(target) ==
    SelectSeq(config.inverters,
              LAMBDA i : i.enabled /\ (target = "all" \/ i.datalog = target))

\* The mqtt_receiver takes a command message off from_mqtt.
ReceivesMessage ==
    /\ pc = "recv"
    /\ pc' # "done"
    /\ from_mqtt # <<>>
    /\ from_mqtt' = Tail(from_mqtt)
    /\ lifecycle' = lifecycle

\* process_command is entered for a command.
EntersProcessCommand == stats'.packets_sent = stats.packets_sent + 1

\* The inverter of the command process_command was entered for.
Dispatched == IF pc' = "wait" THEN cmd'.inverter ELSE last'.command.inverter

\* C16: a command is dispatched to exactly the target inverters resolved
\* from its topic: every enabled inverter for 'all', the enabled inverters
\* with that datalog for a datalog serial, one after the other; a disabled
\* inverter receives no command and no request, and a serial of no enabled
\* inverter dispatches nothing.
C16_DispatchedToTargets ==
    [][/\ ReceivesMessage =>
            /\ targets' = TargetsOf(Head(from_mqtt).target)
            /\ TargetsOf(Head(from_mqtt).target) = <<>> =>
                    pc' = "recv" /\ cmd' = NoCommand /\ sent' = sent
       /\ EntersProcessCommand =>
            /\ targets # <<>>
            /\ Dispatched = Head(targets)
            /\ Dispatched.enabled
            /\ msg.target \in {"all", Dispatched.datalog}
            /\ targets' = Tail(targets) \/ (targets' = <<>> /\ last'.bailed)
            /\ sent' \ sent \subseteq
                    {q \in sent' : /\ q.datalog = Head(targets).datalog
                                   /\ q.kind = "TranslatedData" =>
                                        q.inverter = Head(targets).serial}
       /\ (~ReceivesMessage /\ targets' # targets) =>
            \/ targets' = Tail(targets)
            \/ targets' = <<>> /\ last'.bailed
       /\ \A k \in 1..Len(config.inverters) :
            ~config.inverters[k].enabled =>
                /\ to_inverter'[config.inverters[k].datalog] = <<>>
                /\ \A q \in sent' : q.datalog # config.inverters[k].datalog
      ]_vars

\* One message to 'all' was dispatched to both enabled inverters.
C16_Witness ==
    /\ arrived = 1
    /\ pc = "recv"
    /\ from_mqtt = <<>>
    /\ last.verb # "None"
    /\ \A d \in Datalogs : \E q \in sent : q.datalog = d
    /\ last.command.inverter.datalog = "D2"

\* A message for the datalog of a disabled inverter was received and
\* dispatched to nobody.
C16_WitnessNoTarget ==
    /\ arrived = 1
    /\ pc = "recv"
    /\ from_mqtt = <<>>
    /\ ~config.inverters[2].enabled
    /\ stats.packets_sent = 0
    /\ sent = {}
    /\ counts.messages = 0
    /\ counts.bodies = "any"

\* The request of read_inputs/n for an inverter: ReadInput of 40 registers
\* from register 40 * (n - 1), with the inverter's datalog and serial.
ReadInputsBlock(inverter, n) ==
    [kind |-> "TranslatedData", datalog |-> inverter.datalog,
     device_function |-> "ReadInput", inverter |-> inverter.serial,
     register |-> InputBlockSize * (n - 1), values |-> <<InputBlockSize, 0>>]

\* C17: read_inputs/n for n in 1..4 puts exactly one request on to_inverter
\* (while the channel has a subscriber): a ReadInput with the inverter's
\* datalog and serial, register 40 * (n - 1) and count 40.
C17_ReadInputsBlock ==
    /\ [][(EntersProcessCommand /\ msg.verb = "read_inputs"
            /\ \E d \in Datalogs : session[d] = "Connected")
          => /\ msg.args[1] \in 1..4
             /\ pc' = "wait"
             /\ sent' = sent \cup {ReadInputsBlock(Head(targets), msg.args[1])}
             /\ cmd'.requests = <<ReadInputsBlock(Head(targets), msg.args[1])>>
             /\ \A d \in Datalogs :
                  to_inverter'[d] =
                    IF d = Head(targets).datalog /\ session[d] = "Connected"
                    THEN Append(to_inverter[d],
                                [packet |-> ReadInputsBlock(Head(targets), msg.args[1]),
                                 id |-> msg.id])
                    ELSE to_inverter[d]]_vars
    /\ [](last.verb = "read_inputs" /\ last.error # "ChannelClosed"
            => last.requests =
                 <<ReadInputsBlock(last.command.inverter, last.command.args[1])>>)

\* read_inputs/3 finished after its one request for registers 80..119 was
\* written to the inverter.
C17_Witness ==
    /\ last.verb = "read_inputs"
    /\ last.command.args = <<3>>
    /\ last.ok
    /\ Len(last.requests) = 1
    /\ last.requests[1].register = 80
    /\ last.requests[1].values = <<40, 0>>
    /\ last.requests[1] \in sent

\* The finished command is an UpdateHold(Register21, bit of the verb, true)
\* that returned Ok.
EnabledBit(l) ==
    /\ l.verb \in UpdateHoldVerbs
    /\ l.ok
    /\ l.command.payload = <<1>>

\* The value the finished UpdateHold wrote to the register.
Written(l) == FromLeBytes(l.command.requests[2].values)

\* C18: UpdateHold(r, mask, true) run twice in succession on an inverter,
\* with no other writer of r in between, leaves register r with the value a
\* single call left, the bit set; and the cache entry for r, once the reply
\* of the second call went through the receiver and the cache task, is that
\* value.
C18_UpdateHoldIdempotent ==
    /\ [][(/\ last # NoLast
           /\ EnabledBit(last)
           /\ EnabledBit(last')
           /\ last'.verb = last.verb
           /\ last'.command.inverter = last.command.inverter
           /\ last'.command.id = last.command.id + 1)
          => /\ BitIsSet(Written(last), UpdateHoldBit(last.verb))
             /\ Written(last') = Written(last)
             /\ FromLeBytes(last'.command.replies[1].values) = Written(last)
             /\ regs'[last.command.inverter.datalog][Register21] = Written(last)
         ]_vars
    /\ [](/\ last # NoLast
          /\ EnabledBit(last)
          /\ last.command.id = 2
          /\ lastIn.packet = last.reply
          /\ lastIn.accepted
          /\ from_inverter = <<>>
          /\ to_register_cache = <<>>
          => /\ Register21 \in DOMAIN cache
             /\ cache[Register21] = Written(last)
             /\ cache[Register21] = regs[last.command.inverter.datalog][Register21])

\* The second of two commands, an ac_charge enable, found the bit already set,
\* wrote the same value back, and the cache holds it.
C18_Witness ==
    /\ last # NoLast
    /\ EnabledBit(last)
    /\ last.verb = "ac_charge"
    /\ last.command.id = 2
    /\ FromLeBytes(last.command.replies[1].values) = 128
    /\ Written(last) = 128
    /\ regs["D1"][Register21] = 128
    /\ from_inverter = <<>>
    /\ to_register_cache = <<>>
    /\ Register21 \in DOMAIN cache
    /\ cache[Register21] = 128

\* Coordinator::start has returned Ok: the inverter_receiver returned Ok and,
\* when MQTT is enabled, so did the mqtt_receiver.
StartReturnedOk ==
    /\ ir = "done"
    /\ config.mqtt_enabled => pc = "done"

C19_WitnessPacket ==
    /\ ir = "done"
    /\ from_inverter # <<>>
    /\ Head(from_inverter).kind = "TranslatedData"
    /\ stats.packets_received = 0
    /\ lastIn = NoLastIn

\* Some enabled inverter of the file has a port of 0, an empty host or a
\* read_timeout of zero.
BadInverter(f) ==
    \E k \in 1..Len(f.inverters) :
        /\ f.inverters[k].enabled
        /\ \/ f.inverters[k].port = 0
           \/ f.inverters[k].host = ""
           \/ f.inverters[k].read_timeout = [some |-> TRUE, value |-> 0]

\* A port of the file is outside [0, 65535] and cannot be read as a u16.
PortNoU16(f) ==
    \/ f.mqtt.port \notin 0..65535
    \/ \E k \in 1..Len(f.inverters) : f.inverters[k].port \notin 0..65535

\* The rules as the code applies them: to enabled sections only, and with
\* the InfluxDB database name among them.
BreaksRule(f) ==
    \/ PortNoU16(f)
    \/ f.mqtt.enabled /\ (f.mqtt.port = 0 \/ f.mqtt.host = "")
    \/ f.influx.enabled /\ (f.influx.url.scheme = "" \/ f.influx.database = "")
    \/ \E k \in 1..Len(f.databases) :
            f.databases[k].enabled /\ f.databases[k].url.scheme = ""
    \/ BadInverter(f)
    \/ /\ f.scheduler.some
       /\ f.scheduler.value.enabled
       /\ f.scheduler.value.timesync_cron = [some |-> TRUE, value |-> ""]

\* The rules as stated: an empty host, a port outside [1, 65535], an
\* unparseable InfluxDB or database URL, a read_timeout of zero, a
\* present-but-empty cron.
BreaksStatedRule(f) ==
    \/ f.mqtt.host = ""
    \/ f.mqtt.port \notin 1..65535
    \/ \E k \in 1..Len(f.inverters) :
            \/ f.inverters[k].host = ""
            \/ f.inverters[k].port \notin 1..65535
            \/ f.inverters[k].read_timeout = [some |-> TRUE, value |-> 0]
    \/ f.influx.url.scheme = ""
    \/ \E k \in 1..Len(f.databases) : f.databases[k].url.scheme = ""
    \/ /\ f.scheduler.some
       /\ f.scheduler.value.timesync_cron = [some |-> TRUE, value |-> ""]

\* C20 as stated: Config::new rejects, building no configuration, every file
\* with an empty host, a port outside [1, 65535], an unparseable InfluxDB or
\* database URL, a read_timeout of zero or a present-but-empty cron, and
\* accepts every file that breaks none of these.
C20_RejectsStatedRules ==
    loaded # NotLoaded =>
        /\ loaded.ok <=> ~BreaksStatedRule(file)
        /\ loaded.ok => loaded.config = file

\* C20: Config::new rejects, building no configuration, every file in which
\* an enabled section breaks a rule (MQTT or inverter: empty host, port 0;
\* InfluxDB: unparseable URL, empty database name; database: unparseable URL;
\* inverter: read_timeout of zero; scheduler: present-but-empty cron) or
\* a port is no u16, and accepts every other file as written; disabled
\* sections are not validated.
C20_RejectsEnabledRules ==
    loaded # NotLoaded =>
        /\ loaded.ok <=> ~BreaksRule(file)
        /\ loaded.ok => loaded.config = file
        /\ ~loaded.ok => DOMAIN loaded = {"ok", "error"}

\* A file whose second inverter has a read_timeout of zero was rejected.
C20_Witness ==
    /\ loaded # NotLoaded
    /\ ~loaded.ok
    /\ loaded.error = "inverter"
    /\ Len(file.inverters) = 2
    /\ file.inverters[2].enabled
    /\ file.inverters[2].host # ""
    /\ file.inverters[2].port = 8000
    /\ file.inverters[2].read_timeout = [some |-> TRUE, value |-> 0]

\* A file with a disabled inverter that has no host was accepted.
C20_WitnessDisabled ==
    /\ loaded # NotLoaded
    /\ loaded.ok
    /\ loaded.config = file
    /\ ~file.inverters[1].enabled
    /\ file.inverters[1].host = ""

\* C21: for every (start_hour, start_minute, end_hour, end_minute) with hours
\* in 0..23 and minutes in 0..59, the two packed words are
\* (minute << 8) | hour, and unpacking them gives the same quadruple.
C21_TimeRoundTrip ==
    /\ time_register.words # <<>> =>
          /\ time_register.words[1] =
                time_register.values[2] * 256 + time_register.values[1]
          /\ time_register.words[2] =
                time_register.values[4] * 256 + time_register.values[3]
          /\ \A i \in 1..2 : time_register.words[i] \in 0..65535
    /\ time_register.parsed # <<>> =>
          time_register.parsed = time_register.values

\* 23:59 to 00:59 was packed into 0x3B17 and 0x3B00 and parsed back.
C21_Witness ==
    /\ time_register.values = <<23, 59, 0, 59>>
    /\ time_register.words = <<15127, 15104>>
    /\ time_register.parsed = <<23, 59, 0, 59>>

C23_SubscribedBeforeSend ==
    [][/\ \A d \in Datalogs :
             Len(to_inverter'[d]) > Len(to_inverter[d]) =>
                LET q == to_inverter'[d][Len(to_inverter'[d])].packet
                IN  /\ waiter'.subscribed
                    /\ waiter'.request = q
                    /\ waiter'.reply = NoPacket
       /\ \A d \in Datalogs :
             (/\ ~wire[d].answered /\ wire'[d].answered
              /\ session'[d] = "Connected"
              /\ pc = "wait"
              /\ wire[d].id = cmd.id
              /\ wire[d].packet = waiter.request
              /\ waiter.reply = NoPacket) =>
                /\ waiter'.reply # NoPacket
                /\ Fingerprint(waiter'.reply) = Fingerprint(wire[d].packet)
                /\ waiter'.reply.datalog = d]_vars

\* The reply to a ReadParam request has reached its waiter.
C23_Witness ==
    /\ pc = "wait"
    /\ waiter.request.kind = "ReadParam"
    /\ waiter.reply.kind = "ReadParam"
    /\ wire[waiter.request.datalog].answered

\* The echo of a SetHold request has reached its waiter.
C23_WitnessSetHold ==
    /\ pc = "wait"
    /\ cmd.prim.kind = "SetHold"
    /\ waiter.request.device_function = "WriteSingle"
    /\ waiter.reply.kind = "TranslatedData"
    /\ waiter.reply.device_function = "WriteSingle"

\* C24: UpdateHold emits exactly ReadHold(register 21, count 1) and then,
\* only after that read's reply with value v arrived, WriteSingle with
\* v | mask (enable) or v & ~mask (disable); an ac_charge with payload 1
\* that read 0 from register 21 writes 0x0080, and the cache entry for
\* register 21 ends as 0x0080.
C24_UpdateHoldSequence ==
    /\ [][(last' # last /\ last'.verb \in UpdateHoldVerbs) =>
            LET c == last'.command
                rq == c.requests
                mask == CASE c.verb = "ac_charge" -> 128
                          [] c.verb = "forced_discharge" -> 1024
                          [] c.verb = "charge_priority" -> 2048
                v == c.replies[1].values[1] + 256 * c.replies[1].values[2]
                has == (v \div mask) % 2 = 1
                w == IF c.payload = <<1>>
                     THEN (IF has THEN v ELSE v + mask)
                     ELSE (IF has THEN v - mask ELSE v)
            IN  /\ Len(rq) <= 2
                /\ Len(rq) >= 1 =>
                      rq[1] = [kind |-> "TranslatedData",
                               datalog |-> c.inverter.datalog,
                               device_function |-> "ReadHold",
                               inverter |-> c.inverter.serial,
                               register |-> 21, values |-> <<1, 0>>]
                /\ Len(rq) = 2 =>
                      /\ Len(c.replies) >= 1
                      /\ c.replies[1].device_function = "ReadHold"
                      /\ c.replies[1].register = 21
                      /\ c.replies[1].datalog = c.inverter.datalog
                      /\ rq[2] = [kind |-> "TranslatedData",
                                  datalog |-> c.inverter.datalog,
                                  device_function |-> "WriteSingle",
                                  inverter |-> c.inverter.serial,
                                  register |-> 21,
                                  values |-> <<w % 256, w \div 256>>]
                /\ last'.ok => Len(rq) = 2
          ]_vars
    /\ [][(/\ cmd'.verb \in UpdateHoldVerbs
           /\ Len(cmd'.requests) = 2
           /\ cmd # cmd'
           /\ sent' # sent \/ to_inverter' # to_inverter) =>
            /\ pc = "wait"
            /\ cmd.verb = cmd'.verb
            /\ cmd.requests = <<cmd'.requests[1]>>
            /\ waiter.request = cmd.requests[1]
            /\ waiter.reply # NoPacket
            /\ waiter.reply.device_function = "ReadHold"
            /\ waiter.reply.register = 21
          ]_vars
    /\ [](/\ last # NoLast
          /\ last.verb = "ac_charge"
          /\ last.ok
          /\ last.command.payload = <<1>>
          /\ last.command.replies[1].values = <<0, 0>>
          => /\ last.command.requests[2].values = <<128, 0>>
             /\ (/\ lastIn.packet = last.reply
                 /\ lastIn.accepted
                 /\ from_inverter = <<>>
                 /\ to_register_cache = <<>>)
                => /\ 21 \in DOMAIN cache
                   /\ cache[21] = 128)

\* An ac_charge enable read 0 from register 21, wrote 0x0080, and the cache
\* holds 0x0080.
C24_Witness ==
    /\ last # NoLast
    /\ last.verb = "ac_charge"
    /\ last.ok
    /\ last.command.payload = <<1>>
    /\ last.command.replies[1].values = <<0, 0>>
    /\ last.command.requests[2].values = <<128, 0>>
    /\ lastIn.packet = last.reply
    /\ to_register_cache = <<>>
    /\ 21 \in DOMAIN cache
    /\ cache[21] = 128

\* An ac_charge disable read 0x0080 and wrote 0.
C24_WitnessDisable ==
    /\ last # NoLast
    /\ last.verb = "ac_charge"
    /\ last.ok
    /\ last.command.payload = <<0>>
    /\ last.command.replies[1].values = <<128, 0>>
    /\ last.command.requests[2].values = <<0, 0>>

\* C25: with the requests of an on-connect read and of an MQTT command
\* outstanding at once under different fingerprints, a reply reaches exactly
\* the waiter whose request has its fingerprint (variant, datalog, device
\* function, register), whatever the order of the replies, and each
\* primitive returns the reply with the fingerprint of its own request.
C25_RepliesByFingerprint ==
    [][LET Fp(p) == <<p.kind, p.datalog, p.device_function, p.register>>
           Received(w, v) ==
               (w.reply = NoPacket /\ v.reply # NoPacket) =>
                   /\ v.request = w.request
                   /\ Fp(v.reply) = Fp(w.request)
           Delivered(w, v, p) ==
               (w.subscribed /\ w.reply = NoPacket) =>
                   IF Fp(p) = Fp(w.request) THEN v.reply = p ELSE v = w
       IN  /\ Received(waiter, waiter')
           /\ Received(handshake.waiter, handshake'.waiter)
           /\ \A d \in Datalogs :
                 (~wire[d].answered /\ wire'[d].answered) =>
                    /\ Delivered(waiter, waiter', HonestReply(d, wire[d].packet))
                    /\ Delivered(handshake.waiter, handshake'.waiter,
                                 HonestReply(d, wire[d].packet))
           /\ (last' # last /\ last'.reply # NoPacket) =>
                 Fp(last'.reply) = Fp(last'.requests[Len(last'.requests)])
           /\ Len(handshake'.replies) > Len(handshake.replies) =>
                 LET n == Len(handshake'.replies)
                 IN  Fp(handshake'.replies[n]) = Fp(handshake.requests[n])
      ]_vars

\* The on-connect read of D1 and the read_hold command's request to D1 wait
\* at once; the command's reply has arrived, the handshake's has not.
C25_Witness ==
    /\ pc = "wait"
    /\ handshake.state = "wait"
    /\ waiter.request.datalog = "D1"
    /\ handshake.waiter.request.datalog = "D1"
    /\ waiter.request.register = 21
    /\ handshake.waiter.request.register = 40
    /\ waiter.reply # NoPacket
    /\ waiter.reply.register = 21
    /\ handshake.waiter.reply = NoPacket

\* The same command's request to the second inverter waits next to the
\* on-connect read of the first; the handshake's reply has arrived first.
C25_WitnessTwoInverters ==
    /\ pc = "wait"
    /\ handshake.state = "wait"
    /\ waiter.request.datalog = "D2"
    /\ handshake.waiter.request.datalog = "D1"
    /\ waiter.reply = NoPacket
    /\ handshake.waiter.reply # NoPacket
    /\ handshake.waiter.reply.register = handshake.waiter.request.register

\* C26: every ReadInput / ReadHold request asks for at most
\* register_block_size (40) registers, and the requests of a finished
\* read_input/{reg}/{count} or read_hold/{reg}/{count} command ask, between
\* them, for exactly the count of the command: a count above the block size
\* is split into several requests.
C26_ReadsWithinBlockSize ==
    /\ \A q \in sent :
          (q.kind = "TranslatedData"
           /\ q.device_function \in {"ReadInput", "ReadHold"}) =>
              q.values[1] + 256 * q.values[2] <= 40
    /\ (/\ last # NoLast
        /\ last.verb \in {"read_input", "read_hold"}
        /\ last.ok) =>
           LET rq == last.requests
               asked[i \in 0..Len(rq)] ==
                   IF i = 0 THEN 0 ELSE asked[i - 1] + rq[i].values[1]
           IN  asked[Len(rq)] = last.command.args[2]

\* C27: inverter_connected(datalog) for an enabled inverter with
\* publish_holdings_on_connect issues ReadHold requests for registers 0, 40,
\* 80, 120, 160, 200 in that order, then for num = 1, 2, 3 in order one read
\* of each of the four time-register groups, each request only after the
\* previous one was answered; for an unknown datalog or without the flag it
\* issues no request.
C27_HandshakeSequence ==
    LET registers == <<0, 40, 80, 120, 160, 200,
                       68, 76, 84, 152, 70, 78, 86, 154, 72, 80, 88, 156>>
        known == \E k \in 1..Len(config.inverters) :
                    /\ config.inverters[k].enabled
                    /\ config.inverters[k].datalog = handshake.datalog
        serial == IF handshake.datalog = "D1" THEN "S1" ELSE "S2"
        rq == handshake.requests
    IN  handshake.state # "off" =>
          /\ Len(rq) <= 18
          /\ \A i \in 1..Len(rq) :
                rq[i] = [kind |-> "TranslatedData",
                         datalog |-> handshake.datalog,
                         device_function |-> "ReadHold",
                         inverter |-> serial,
                         register |-> registers[i],
                         values |-> <<IF i <= 6 THEN 40 ELSE 2, 0>>]
          /\ Len(handshake.replies) >= Len(rq) - 1
          /\ \A i \in 1..Len(handshake.replies) :
                /\ i <= Len(rq)
                /\ handshake.replies[i].device_function = "ReadHold"
                /\ handshake.replies[i].datalog = handshake.datalog
                /\ handshake.replies[i].register = registers[i]
          /\ (~known \/ ~handshake.publish_holdings_on_connect) =>
                /\ rq = <<>>
                /\ handshake.state \in {"idle", "done"}
                /\ \A d \in Datalogs : \A i \in 1..Len(to_inverter[d]) :
                      to_inverter[d][i].id # 0
          /\ (known /\ handshake.publish_holdings_on_connect
              /\ handshake.state = "done") =>
                Len(rq) = 18 /\ Len(handshake.replies) = 18
          /\ handshake.state = "wait" => Len(rq) = Len(handshake.replies) + 1

\* The handshake of D1 ran to its end: eighteen reads, all answered.
C27_Witness ==
    /\ handshake.state = "done"
    /\ handshake.datalog = "D1"
    /\ Len(handshake.requests) = 18
    /\ handshake.requests[7].register = 68
    /\ handshake.requests[18].register = 156
    /\ Len(handshake.replies) = 18

\* inverter_connected returned for the disabled inverter's datalog without a
\* request.
C27_WitnessUnknown ==
    /\ handshake.state = "done"
    /\ handshake.datalog = "D2"
    /\ handshake.publish_holdings_on_connect
    /\ ~config.inverters[2].enabled
    /\ handshake.requests = <<>>
    /\ stats.packets_sent = 0

\* C28: a subscriber of from_inverter that falls behind loses only the
\* oldest undelivered packets and keeps running: the inverter_receiver ends
\* only when it receives Shutdown, and a session's broadcast never waits
\* for it.
C28_LagNeverEndsLoop ==
    [][/\ (ir = "running" /\ ir' # "running") =>
             (from_inverter # <<>> /\ Head(from_inverter) = Shutdown)
       /\ (counts'.inbound < counts.inbound /\ ir = "running") =>
             /\ from_inverter' # <<>>
             /\ from_inverter'[Len(from_inverter')] = Heartbeat("D1")
             /\ Len(from_inverter') <= ChannelCapacity + 1
      ]_vars

(* --------------------------- C29: failing sinks ------------------------ *)

\* C29: while an accepted inbound packet is processed, a send to the register
\* cache channel that fails is counted in register_cache_errors, once for
\* every (register, value) pair of the packet, and a send to to_mqtt that
\* fails is counted in mqtt_errors for every message of the packet (twice:
\* by publish_message and by its caller); no pair and no message is skipped
\* after a failure, nothing is counted for a send that succeeds, and the
\* inverter_receiver stays in its loop for the next packet.
C29_SinkFailuresCounted ==
    [][\A f \in {"ReadHold", "ReadInput", "WriteSingle", "WriteMulti"} :
          ReceivesAccepted(f)
          => LET p == Head(from_inverter)
                 pairs == CASE f = "ReadInput" -> 0
                            [] f = "WriteSingle" -> 1
                            [] OTHER -> Len(p.values) \div 2
                 messages ==
                     CASE ~config.mqtt_enabled -> 0
                       [] f = "ReadHold" -> pairs
                       [] f = "ReadInput" ->
                            IF p.register = 0 /\ Len(p.values) = 2 * InputBlockSize
                            THEN 1 ELSE 0
                       [] OTHER -> 1
             IN  /\ ir' = "running"
                 /\ Len(lastIn'.updates) = pairs
                 /\ Len(lastIn'.published) = messages
                 /\ IF register_cache = "ended"
                    THEN /\ stats'.register_cache_errors =
                                stats.register_cache_errors + pairs
                         /\ to_register_cache' = to_register_cache
                    ELSE /\ stats'.register_cache_errors =
                                stats.register_cache_errors
                         /\ Len(to_register_cache') =
                                Len(to_register_cache) + pairs
                 /\ IF to_mqtt_subscribed
                    THEN /\ stats'.mqtt_errors = stats.mqtt_errors
                         /\ stats'.mqtt_messages_sent =
                                stats.mqtt_messages_sent + messages
                    ELSE /\ stats'.mqtt_errors = stats.mqtt_errors + 2 * messages
                         /\ stats'.mqtt_messages_sent = stats.mqtt_messages_sent]_vars

\* Two packets of two pairs each were processed after the register cache
\* task had ended and to_mqtt had lost its subscriber: a ReadHold (two
\* messages) and then a WriteMulti (one message); all four cache sends and
\* all three publishes were counted and the inverter_receiver is still
\* running.
C29_Witness ==
    /\ ir = "running"
    /\ register_cache = "ended"
    /\ ~to_mqtt_subscribed
    /\ stats.packets_received = 2
    /\ stats.register_cache_errors = 4
    /\ stats.mqtt_errors = 6
    /\ stats.mqtt_messages_sent = 0
    /\ lastIn.packet # NoPacket
    /\ lastIn.packet.device_function = "WriteMulti"
    /\ Len(lastIn.updates) = 2

\* The register cache task ended between two packets: the first was cached,
\* the second was counted as two failed sends, and MQTT received both.
C29_WitnessCacheOnly ==
    /\ ir = "running"
    /\ to_mqtt_subscribed
    /\ stats.packets_received = 2
    /\ stats.register_cache_errors = 2
    /\ stats.mqtt_errors = 0
    /\ stats.mqtt_messages_sent >= 2

(* --------------------------- C30: statistics --------------------------- *)

\* The inverter_receiver takes a frame from its channel.
TakesFrame ==
    /\ ir = "running"
    /\ from_inverter # <<>>
    /\ from_inverter' = Tail(from_inverter)
    /\ Head(from_inverter).kind \in
            {"Heartbeat", "TranslatedData", "ReadParam", "WriteParam"}

\* process_message parses a command for its next target and enters
\* process_command.
DispatchesCommand ==
    /\ pc = "loop"
    /\ targets' = Tail(targets)
    /\ ~ParseFails(msg)

\* No counter of PacketStats decreases or is reset.
CountersMonotonic ==
    /\ \A f \in DOMAIN stats \ {"inverter_disconnections"} : stats'[f] >= stats[f]
    /\ \A d \in DOMAIN stats.inverter_disconnections :
          /\ d \in DOMAIN stats'.inverter_disconnections
          /\ stats'.inverter_disconnections[d] >= stats.inverter_disconnections[d]

\* C30 as stated: every command dispatch and every inbound frame changes
\* exactly one counter of PacketStats, and no counter ever decreases.
C30_ExactlyOneCounter ==
    [][/\ CountersMonotonic
       /\ (TakesFrame \/ DispatchesCommand)
          => Cardinality({f \in DOMAIN stats : stats'[f] # stats[f]}) = 1]_vars

\* C30: every command dispatch increments the total packets_sent and exactly
\* one per-kind sent counter (translated_data_packets_sent, whatever the
\* command), and no received counter; every inbound frame increments the
\* total packets_received and exactly the per-kind received counter of its
\* own kind, and no sent counter (serial_mismatches, mqtt_messages_sent,
\* mqtt_errors and register_cache_errors may grow in the same step); and no
\* operation ever decreases or resets a counter.
C30_TotalAndKindCounted ==
    [][/\ CountersMonotonic
       /\ DispatchesCommand
          => \A f \in DOMAIN stats :
                stats'[f] =
                    IF f \in {"packets_sent", "translated_data_packets_sent"}
                    THEN stats[f] + 1 ELSE stats[f]
       /\ TakesFrame
          => LET kind == Head(from_inverter).kind
                 own == CASE kind = "Heartbeat" -> "heartbeat_packets_received"
                          [] kind = "TranslatedData" -> "translated_data_packets_received"
                          [] kind = "ReadParam" -> "read_param_packets_received"
                          [] kind = "WriteParam" -> "write_param_packets_received"
             IN  \A f \in DOMAIN stats :
                    CASE f \in {"packets_received", own} -> stats'[f] = stats[f] + 1
                      [] f \in {"serial_mismatches", "mqtt_messages_sent",
                                "mqtt_errors", "register_cache_errors"} ->
                            stats'[f] >= stats[f]
                      [] OTHER -> stats'[f] = stats[f]]_vars

\* A command was dispatched and its TranslatedData reply and a Heartbeat were
\* received: each total equals the sum of its per-kind counters.
C30_Witness ==
    /\ stats.packets_sent = 1
    /\ stats.translated_data_packets_sent = 1
    /\ stats.packets_received = 2
    /\ stats.translated_data_packets_received = 1
    /\ stats.heartbeat_packets_received = 1

\* A read_param command was dispatched and answered: the dispatch was
\* counted as a TranslatedData packet, the reply as a ReadParam packet.
C30_WitnessParam ==
    /\ stats.packets_sent = 1
    /\ stats.translated_data_packets_sent = 1
    /\ stats.read_param_packets_sent = 0
    /\ stats.packets_received = 1
    /\ stats.read_param_packets_received = 1

\* A frame with a foreign serial was received: it raised packets_received,
\* translated_data_packets_received and serial_mismatches in one step.
C30_WitnessMismatch ==
    /\ lastIn.packet # NoPacket
    /\ lastIn.mismatch
    /\ stats.packets_received = 1
    /\ stats.translated_data_packets_received = 1
    /\ stats.serial_mismatches = 1

(* --------------------- C31, C32: startup and teardown ------------------ *)

\* C31: on shutdown the components are torn down in the reverse of the
\* order in which they were started (of two components that are stopped, the
\* one started later is stopped first; the MQTT gateway counts as started
\* last, with the scheduler), and no component is stopped before the
\* Shutdown sentinels were broadcast and the 500 ms grace window elapsed.
C31_TeardownReversesStartup ==
    app.phase \in {"stopping", "returned"}
    => LET Rank(c) == CHOOSE k \in 1..Len(StartupOrder) :
                         StartupOrder[k] = IF c = "mqtt" THEN "scheduler_mqtt" ELSE c
           steps == {"signals", "grace", "statistics"}
       IN  /\ \A i \in 1..Len(app.stopped) :
                app.stopped[i] \notin steps
                => /\ i > 2
                   /\ app.stopped[1] = "signals"
                   /\ app.stopped[2] = "grace"
           /\ \A i, j \in 1..Len(app.stopped) :
                (i < j /\ app.stopped[i] \notin steps /\ app.stopped[j] \notin steps)
                => Rank(app.stopped[i]) > Rank(app.stopped[j])

\* C32: under every interleaving of the spawned tasks, the coordinator holds
\* its subscription to from_inverter when an inverter session broadcasts its
\* first packet: no first packet is missed by the coordinator.
C32_SubscribedBeforeFirstPacket ==
    \A d \in Datalogs :
        /\ app.first[d] # "missed"
        /\ app.first[d] = "received" => app.tasks["coordinator"] = "subscribed"

(* ------------------- C33: request sent without a subscriber ------------ *)

\* A primitive is started: the first of a command, or the next one after a
\* reply.
StartsPrimitive ==
    \/ pc = "loop" /\ targets' # targets /\ ~ParseFails(msg)
    \/ /\ pc = "wait" /\ waiter.reply # NoPacket /\ cmd' # cmd
       /\ ReplyOk(cmd.prim, waiter.reply)
       /\ NextPrim(cmd, waiter.reply) # NoPrim

\* C33: a primitive started while no session holds a subscription to
\* to_inverter returns an error at once: it puts nothing on to_inverter, does
\* not wait for a reply, and its command ends as failed (with the channel
\* error, unless the inverter is read-only and the write was refused before
\* the send).
C33_SendWithoutSubscriberFails ==
    [][(StartsPrimitive /\ \A d \in Datalogs : session[d] # "Connected")
       => /\ pc' # "wait"
          /\ waiter' = NoWaiter
          /\ cmd' = NoCommand
          /\ to_inverter' = to_inverter
          /\ sent' = sent
          /\ ~last'.ok
          /\ last'.requests = IF pc = "loop" THEN <<>> ELSE cmd.requests
          /\ LET inverter == IF pc = "loop" THEN Head(targets) ELSE cmd.inverter
             IN  ~inverter.read_only => last'.error = "ChannelClosed"]_vars

\* A command was dispatched after the only session had dropped: it failed
\* with the channel error before any request was sent.
C33_Witness ==
    /\ last # NoLast
    /\ ~last.ok
    /\ last.error = "ChannelClosed"
    /\ last.requests = <<>>
    /\ pc # "wait"
    /\ \A d \in Datalogs : to_inverter[d] = <<>>

\* The session dropped after the read of a read-modify-write command was
\* answered: the write that follows failed with the channel error and was
\* never put on to_inverter.
C33_WitnessSecondPrimitive ==
    /\ last # NoLast
    /\ ~last.ok
    /\ last.error = "ChannelClosed"
    /\ Len(last.requests) = 1
    /\ pc # "wait"

(* ------------------------ C34: session draining ------------------------ *)

\* C34: every time a session leaves Connected for Disconnected, the
\* disconnect count of the statistics for its datalog increases by exactly
\* one, a waiter outstanding on that session fails with the connection-lost
\* error, and the session is Disconnected.
C34_DrainCountsDisconnect ==
    [][\A d \in Datalogs :
          (session[d] = "Connected" /\ session'[d] # "Connected")
          => LET count(st) == IF d \in DOMAIN st.inverter_disconnections
                              THEN st.inverter_disconnections[d] ELSE 0
             IN  /\ session'[d] = "Disconnected"
                 /\ (pc = "wait" /\ waiter.request.datalog = d
                       /\ waiter.reply = NoPacket) => waiter'.lost
                 /\ count(stats') = count(stats) + 1]_vars

(* ----------------- C35: a failing command halts nothing ---------------- *)

\* C35: while to_mqtt has a subscriber, a command that fails for one
\* inverter is answered with one FAIL and the same message goes on to its
\* remaining target inverters; a command that fails to parse for an inverter
\* is skipped, with no FAIL and no dispatch counted; in both cases the
\* mqtt_receiver stays in its loop (at the next target, or back at recv()
\* with every later message still queued), and it leaves the loop only on
\* Shutdown.
C35_FailureHaltsNothing ==
    [][/\ (last' # last /\ ~last'.ok /\ to_mqtt_subscribed)
          => LET remaining == IF pc = "loop" THEN Tail(targets) ELSE targets
             IN  /\ Len(last'.fails) = 1
                 /\ last'.fails[1].payload = FailPayload
                 /\ ~last'.bailed
                 /\ targets' = remaining
                 /\ pc' = IF remaining = <<>> THEN "recv" ELSE "loop"
                 /\ remaining # <<>> => msg' = msg
                 /\ from_mqtt' = from_mqtt
       /\ (pc = "loop" /\ ParseFails(msg) /\ targets' # targets)
          => /\ last' = last
             /\ stats' = stats
             /\ sent' = sent
             /\ targets' = Tail(targets)
             /\ pc' = IF Tail(targets) = <<>> THEN "recv" ELSE "loop"
             /\ from_mqtt' = from_mqtt
       /\ (pc # "done" /\ pc' = "done")
          => /\ pc = "recv"
             /\ Head(from_mqtt).kind = "Shutdown"]_vars

\* A write addressed to all inverters was refused for the read-only first
\* inverter and is now running for the second one.
C35_Witness ==
    /\ to_mqtt_subscribed
    /\ last # NoLast
    /\ ~last.ok
    /\ last.command.inverter.datalog = "D1"
    /\ pc = "wait"
    /\ msg.target = "all"
    /\ cmd.inverter.datalog = "D2"
    /\ cmd.id = last.command.id

\* The first message failed and the second message is being processed.
C35_WitnessLaterMessage ==
    /\ to_mqtt_subscribed
    /\ last # NoLast
    /\ ~last.ok
    /\ last.command.id = 1
    /\ pc = "wait"
    /\ cmd.id = 2

(* ----------------------- C36: publish counters ------------------------- *)

\* C36: while the messages of an inbound packet are published, each message
\* that cannot be sent on to_mqtt raises mqtt_errors by exactly one, and each
\* message sent raises mqtt_messages_sent by exactly one and leaves
\* mqtt_errors as it was.
C36_OneErrorPerFailedPublish ==
    [][ReceivesPacket
       => LET handed == Len(lastIn'.published)
              sent_ok == Len(lastIn'.delivered)
          IN  /\ stats'.mqtt_messages_sent = stats.mqtt_messages_sent + sent_ok
              /\ stats'.mqtt_errors = stats.mqtt_errors + (handed - sent_ok)]_vars

(* ------------------------ C37: read_inputs pages ----------------------- *)

C37_WitnessPage4 ==
    /\ last # NoLast
    /\ last.verb = "read_inputs"
    /\ last.command.args = <<4>>
    /\ last.ok
    /\ last.requests[1].register = 120

(* --------------------------- C38: MQTT disabled ------------------------ *)

\* C38: while MQTT is disabled in the configuration the coordinator never
\* runs its mqtt_receiver (no subscription to from_mqtt, no command
\* dispatched, no FAIL), hands no message of an inbound packet to to_mqtt
\* and counts neither a publish nor a publish error; an accepted inbound
\* ReadHold, WriteSingle or WriteMulti packet still sends each of its
\* (register, value) pairs to the register cache.
C38_DisabledMqttSilent ==
    /\ [](~config.mqtt_enabled
          => /\ pc = "off"
             /\ from_mqtt = <<>>
             /\ last = NoLast
             /\ sent = {}
             /\ stats.packets_sent = 0
             /\ stats.mqtt_messages_sent = 0
             /\ stats.mqtt_errors = 0
             /\ lastIn # NoLastIn =>
                   /\ lastIn.published = <<>>
                   /\ lastIn.delivered = <<>>)
    /\ [][(/\ ~config.mqtt_enabled
           /\ \E f \in {"ReadHold", "WriteSingle", "WriteMulti"} :
                   ReceivesAccepted(f))
          => /\ CachesPairs(Head(from_inverter))
             /\ to_register_cache' # to_register_cache]_vars

\* With MQTT disabled, an accepted ReadHold packet was processed: nothing
\* was published and its register reached the cache.
C38_Witness ==
    /\ ~config.mqtt_enabled
    /\ lastIn # NoLastIn
    /\ lastIn.accepted
    /\ lastIn.packet.device_function = "ReadHold"
    /\ lastIn.published = <<>>
    /\ Register21 \in DOMAIN cache
    /\ cache[Register21] = 128

(* ------------------- C39: the handshake stops on failure --------------- *)

\* C39: inverter_connected stops at its first failing read: when a read
\* times out the handshake ends with the error without issuing or counting
\* anything more, a handshake that has failed never issues another request,
\* and a request is only ever issued at the start or after the previous
\* read was answered.
C39_HandshakeStopsOnFailure ==
    [][/\ handshake.state = "failed" => handshake' = handshake
       /\ (handshake.state = "wait" /\ handshake.waiter.reply = NoPacket
           /\ handshake'.state # "wait")
          => /\ handshake'.state = "failed"
             /\ handshake'.requests = handshake.requests
             /\ handshake'.replies = handshake.replies
             /\ sent' = sent
             /\ to_inverter' = to_inverter
             /\ stats'.packets_sent = stats.packets_sent
       /\ handshake'.requests # handshake.requests
          => \/ handshake.state = "idle"
             \/ /\ handshake.state = "wait"
                /\ handshake.waiter.reply # NoPacket]_vars

\* The third page timed out: the handshake failed after three requests and
\* two replies, and the pages from register 120 on were never asked for.
C39_Witness ==
    /\ handshake.state = "failed"
    /\ Len(handshake.requests) = 3
    /\ Len(handshake.replies) = 2
    /\ \A q \in sent : q.register # 120

\* The second time-register read timed out: all six pages were read and the
\* handshake failed at its eighth request.
C39_WitnessTimeRegister ==
    /\ handshake.state = "failed"
    /\ Len(handshake.requests) = 8
    /\ Len(handshake.replies) = 7
    /\ handshake.requests[8].register = 76

(* ------------------------- C40: packets_sent --------------------------- *)

\* C40: in every state packets_sent equals translated_data_packets_sent and
\* the heartbeat, read_param and write_param sent counters are zero;
\* packets_sent grows by one exactly when process_command is entered for a
\* command (one that is then refused as read-only included) or
\* inverter_connected issues a read, and by nothing when the second frame of
\* a read-modify-write command is put on to_inverter.
C40_PacketsSentCountsDispatches ==
    /\ [](/\ stats.packets_sent = stats.translated_data_packets_sent
          /\ stats.heartbeat_packets_sent = 0
          /\ stats.read_param_packets_sent = 0
          /\ stats.write_param_packets_sent = 0)
    /\ [][/\ stats'.packets_sent =
                IF \/ pc = "loop" /\ ~ParseFails(msg) /\ targets' # targets
                   \/ handshake'.requests # handshake.requests
                THEN stats.packets_sent + 1 ELSE stats.packets_sent
          /\ (pc = "wait" /\ pc' = "wait" /\ cmd'.requests # cmd.requests)
             => stats' = stats]_vars

\* A write was refused for a read-only inverter: it was counted as one
\* packet sent although no frame was put on to_inverter.
C40_Witness ==
    /\ last # NoLast
    /\ last.error = "ReadOnly"
    /\ last.requests = <<>>
    /\ sent = {}
    /\ stats.packets_sent = 1
    /\ stats.translated_data_packets_sent = 1

\* A read-modify-write command put two frames on to_inverter and was counted
\* once.
C40_WitnessTwoFrames ==
    /\ last # NoLast
    /\ last.ok
    /\ last.verb = "ac_charge"
    /\ Len(last.requests) = 2
    /\ stats.packets_sent = 1

\* The on-connect handshake ran to its end and no command was dispatched:
\* its 18 reads were counted.
C40_WitnessHandshake ==
    /\ handshake.state = "done"
    /\ Len(handshake.requests) = 18
    /\ arrived = 0
    /\ stats.packets_sent = 18
    /\ stats.translated_data_packets_sent = 18

====
